---- MODULE Spec2Model ----
(***************************************************************************)
(* The script language mode of the Vue language server                    *)
(* (server/src/modes/script/javascript.ts): one mode instance per call of *)
(* getJavascriptMode, its request handlers, and the helpers they share.   *)
(* A handler is one action; the document it is given and the answers of  *)
(* the TypeScript language service are the action's parameters.           *)
(*                                                                         *)
(* Optional values (T | undefined | null) are sequences of length 0 or 1. *)
(* A text is a sequence of one-character strings; offsets, lines and      *)
(* characters are 0-based as in the source, so text[i + 1] is the         *)
(* character at offset i.                                                  *)
(***************************************************************************)
EXTENDS Integers, Sequences, FiniteSets, TLC

\* ------------------------------------------------------------------ bounds

\* longest document text of the text-level specification
MaxTextLen == 2
\* document versions run 1..MaxVersion
MaxVersion == 2
\* most outline items in one navigation tree
MaxNavItems == 2
\* most member declarations of a class
MaxMembers == 2
\* most applicable refactors in one answer of the service
MaxRefactors == 2
\* most file-scoped changes of one code fix
MaxChanges == 2
\* most edits in one answer of getFormattingEditsForRange
MaxEdits == 2
\* most child components one component refers to
MaxChildren == 2
\* most characters of the source text of a member declaration
MaxDeclLen == 6

\* ------------------------------------------------------- optional values

None == <<>>
Some(v) == <<v>>
IsSome(o) == Len(o) = 1
Get(o) == o[1]

Min(a, b) == IF a <= b THEN a ELSE b
Max(a, b) == IF a >= b THEN a ELSE b

RECURSIVE Flatten(_)
\* the concatenation of a sequence of sequences ([...a, ...b], push(...xs))
Flatten(ss) == IF ss = <<>> THEN <<>> ELSE Head(ss) \o Flatten(Tail(ss))

\* the subsequence of s that satisfies Test, in order (Array.prototype.filter)
Filter(s, Test(_)) == SelectSeq(s, Test)

\* ------------------------------------------------------ text and positions

NON_SCRIPT_TRIGGERS == {"<", "*", ":"}

\* the start offsets of the lines of a text, in increasing order: offset 0 of a
\* non-empty text, and the offset after every line break (\n, \r, or \r\n as one)
getLineOffsets(text) ==
  LET n == Len(text)
      breaks == {i \in 1..n :
                   \/ text[i] = "\n"
                   \/ (text[i] = "\r" /\ ~(i < n /\ text[i + 1] = "\n"))}
      starts == (IF n > 0 THEN {0} ELSE {}) \cup breaks
  IN  [k \in 1..Cardinality(starts) |->
         CHOOSE o \in starts : Cardinality({p \in starts : p < o}) = k - 1]

Position(l, c) == [line |-> l, character |-> c]
Range(s, e) == [start |-> s, end |-> e]

\* TextDocument.positionAt: the offset is clamped into the text
positionAt(text, offset) ==
  LET off == Max(Min(offset, Len(text)), 0)
      lineOffsets == getLineOffsets(text)
      low == Cardinality({k \in 1..Len(lineOffsets) : lineOffsets[k] <= off})
  IN  IF Len(lineOffsets) = 0 THEN Position(0, off)
      ELSE Position(low - 1, off - lineOffsets[low])

\* TextDocument.offsetAt: the character is clamped into its line
offsetAt(text, position) ==
  LET lineOffsets == getLineOffsets(text)
      line == position.line
      lineOffset == lineOffsets[line + 1]
      nextLineOffset == IF line + 1 < Len(lineOffsets) THEN lineOffsets[line + 2]
                        ELSE Len(text)
  IN  IF line >= Len(lineOffsets) THEN Len(text)
      ELSE IF line < 0 THEN 0
      ELSE Max(Min(lineOffset + position.character, nextLineOffset), lineOffset)

TextSpan(s, l) == [start |-> s, length |-> l]

\* a variant that takes the span's length for its end offset
convertRange_KeepsLength(text, span) ==
  Range(positionAt(text, span.start), positionAt(text, span.length))

\* convertRange: the span's start and end offsets as positions
convertRange(text, span) ==
  Range(positionAt(text, span.start), positionAt(text, span.start + span.length))

\* ------------------------------------------------------------ documents

Uris == {"file:///a.vue", "file:///b.vue"}

\* utils/paths getFilePath and getFileFsPath: the file path of a document uri
getFilePath(uri) ==
  CASE uri = "file:///a.vue" -> "/a.vue"
    [] uri = "file:///b.vue" -> "/b.vue"
    [] OTHER -> "/"

\* Uri.file(fileName).toString()
UriFile(fileName) == "file://" \o fileName

\* the root files of the language service's program (getRootFileNames):
\* a.vue is loaded, b.vue is a document the service does not hold as a root
rootFileNames == {"/a.vue"}

languageServiceIncludesFile(documentUri) == getFilePath(documentUri) \in rootFileNames

\* the language of a document's script block (scriptDoc.languageId)
languageId(uri) == IF uri = "file:///a.vue" THEN "javascript" ELSE "typescript"

\* a region of the host document: offsets [start, end)
Region(s, e) == [start |-> s, end |-> e]

\* a host document as the editor holds it; regions are its script regions
Document(uri, version, text, regions) ==
  [uri |-> uri, version |-> version, text |-> text, regions |-> regions]

InRegions(regions, off) ==
  \E k \in 1..Len(regions) : regions[k].start <= off /\ off < regions[k].end

\* VueDocumentRegions.getSingleTypeDocument('script'): the host text with every
\* character outside the script regions blanked, line breaks kept, so that the
\* script document and the host document share offsets and positions
getSingleTypeDocument(doc) ==
  [i \in 1..Len(doc.text) |->
     IF InRegions(doc.regions, i - 1) \/ doc.text[i] \in {"\n", "\r"}
     THEN doc.text[i] ELSE " "]

\* VueDocumentRegions.getLanguageRangesOfType('script'), start and end as positions
getLanguageRangesOfType(doc) ==
  [k \in 1..Len(doc.regions) |->
     [start |-> positionAt(doc.text, doc.regions[k].start),
      end |-> positionAt(doc.text, doc.regions[k].end)]]

VARIABLES
  docs,                   \* the editor's documents, by uri
  config,                 \* per mode instance: the object given to configure
  supportedCodeFixCodes,  \* per mode instance: the lazily computed set
  jsDocuments,            \* per mode instance: cache of script documents
  firstScriptRegion,      \* per mode instance: cache of first script regions
  call,                   \* the last handler call: its name and arguments
  queries,                \* the feature queries that call sent to the service
  ret,                    \* what that call returned, or that it threw
  lastRefactor            \* the last RefactorAction resolution, until any edit

vars == <<docs, config, supportedCodeFixCodes, jsDocuments, firstScriptRegion,
          call, queries, ret, lastRefactor>>
modeVars == <<config, supportedCodeFixCodes, jsDocuments, firstScriptRegion>>

ModeIds == {1, 2}

\* ------------------------------------------------------ language model cache

\* getLanguageModelCache: at most one entry per uri, holding the version it was
\* computed for and the value.  With two uris the limit of 10 entries is never met.
EmptyCache == [u \in Uris |-> None]

\* refreshAndGet: the cache after the call (an entry of another version is replaced)
cacheRefresh(cache, doc, value) ==
  IF IsSome(cache[doc.uri]) /\ Get(cache[doc.uri]).version = doc.version
  THEN cache
  ELSE [cache EXCEPT ![doc.uri] = Some([version |-> doc.version, value |-> value])]

\* refreshAndGet: the value returned
cacheGet(cache, doc, value) == Get(cacheRefresh(cache, doc, value)[doc.uri]).value

\* onDocumentRemoved of a cache
cacheRemove(cache, uri) == [cache EXCEPT ![uri] = None]

\* the parse function of the firstScriptRegion cache
parseFirstScriptRegion(doc) ==
  LET scriptRegions == getLanguageRangesOfType(doc)
  IN  IF Len(scriptRegions) > 0 THEN Some(scriptRegions[1]) ELSE None

\* ------------------------------------------------------------- results

Return(v) == [status |-> "ok", value |-> v]
Throw(e) == [status |-> "throw", value |-> e]

\* a query sent to the language service (or to the typescript module), with the
\* argument a property reads, if any
QA(name, arg) == [name |-> name, arg |-> arg]
Q(name) == QA(name, <<>>)

\* what a handler did: the call, the queries it sent, and its result
Observe(c, q, r) == call' = c /\ queries' = q /\ ret' = r

\* ------------------------------------------------------------ configuration

\* Object.assign / _.assign on objects held as functions from field names
Assign(obj, src) ==
  [k \in DOMAIN obj \cup DOMAIN src |-> IF k \in DOMAIN src THEN src[k] ELSE obj[k]]

\* a complete configuration object:
\* vetur.completion.autoImport, vetur.format.defaultFormatter.js / .ts,
\* vetur.format.scriptInitialIndent, vetur.format.options.tabSize / .useTabs,
\* javascript.format, typescript.format
ConfigA ==
  [autoImport |-> TRUE, formatterJs |-> "vscode-typescript", formatterTs |-> "prettier",
   scriptInitialIndent |-> TRUE, tabSize |-> 2, useTabs |-> FALSE,
   jsFormat |-> [insertSpaceAfterCommaDelimiter |-> TRUE],
   tsFormat |-> [insertSpaceAfterCommaDelimiter |-> TRUE]]
ConfigB ==
  [autoImport |-> FALSE, formatterJs |-> "none", formatterTs |-> "vscode-typescript",
   scriptInitialIndent |-> FALSE, tabSize |-> 4, useTabs |-> TRUE,
   jsFormat |-> [insertSpaceAfterCommaDelimiter |-> FALSE],
   tsFormat |-> [insertSpaceAfterCommaDelimiter |-> FALSE]]
Configs == {ConfigA, ConfigB}

\* getFormatCodeSettings; the caller has checked that config.vetur is there
getFormatCodeSettings(c) ==
  [tabSize |-> c.tabSize, indentSize |-> c.tabSize,
   convertTabsToSpaces |-> ~c.useTabs, insertSpaceAfterCommaDelimiter |-> TRUE]

\* configure(c)
configure(m, c) ==
  /\ config' = [config EXCEPT ![m] = Some(c)]
  /\ Observe([op |-> "configure", m |-> m], <<>>, Return(None))
  /\ UNCHANGED <<docs, supportedCodeFixCodes, jsDocuments, firstScriptRegion, lastRefactor>>

\* ----------------------------------------------------------- file lifecycle

\* onDocumentRemoved(document)
onDocumentRemoved(m, uri) ==
  /\ jsDocuments' = [jsDocuments EXCEPT ![m] = cacheRemove(jsDocuments[m], uri)]
  /\ Observe([op |-> "onDocumentRemoved", m |-> m, uri |-> uri], <<>>, Return(None))
  /\ UNCHANGED <<docs, config, supportedCodeFixCodes, firstScriptRegion, lastRefactor>>

\* onDocumentChanged(filePath): serviceHost.updateExternalDocument, no mode state
onDocumentChanged(m, filePath) ==
  /\ Observe([op |-> "onDocumentChanged", m |-> m, uri |-> filePath], <<>>, Return(None))
  /\ UNCHANGED <<docs, modeVars, lastRefactor>>

\* dispose(): jsDocuments.dispose() empties that cache
dispose(m) ==
  /\ jsDocuments' = [jsDocuments EXCEPT ![m] = EmptyCache]
  /\ Observe([op |-> "dispose", m |-> m], <<>>, Return(None))
  /\ UNCHANGED <<docs, config, supportedCodeFixCodes, firstScriptRegion, lastRefactor>>

\* the cleanup timer of a language model cache drops an entry older than 60 s
cacheExpire(m, uri) ==
  /\ IsSome(firstScriptRegion[m][uri]) \/ IsSome(jsDocuments[m][uri])
  /\ firstScriptRegion' = [firstScriptRegion EXCEPT ![m] = cacheRemove(@, uri)]
  /\ jsDocuments' = [jsDocuments EXCEPT ![m] = cacheRemove(@, uri)]
  /\ Observe([op |-> "cacheExpire", m |-> m, uri |-> uri], <<>>, Return(None))
  /\ UNCHANGED <<docs, config, supportedCodeFixCodes, lastRefactor>>

\* the editor changes a document: next version, new text and regions
edit(uri, text, regions) ==
  /\ docs[uri].version < MaxVersion
  /\ docs' = [docs EXCEPT ![uri] = Document(uri, @.version + 1, text, regions)]
  /\ lastRefactor' = None
  /\ Observe([op |-> "edit", m |-> 0, uri |-> uri], <<>>, Return(None))
  /\ UNCHANGED modeVars

\* ------------------------------------------------------------- completion

\* a variant that reads the character at the cursor: doc.getText()[offset]
triggerCharAt_AtCursor(text, offset) ==
  IF 0 <= offset /\ offset < Len(text) THEN Some(text[offset + 1]) ELSE None

\* the character before the cursor: doc.getText()[offset - 1]
triggerCharAt(text, offset) ==
  IF 1 <= offset /\ offset <= Len(text) THEN Some(text[offset]) ELSE None

EmptyCompletionList == [isIncomplete |-> FALSE, items |-> <<>>]

\* toCompletionItemKind (services/typescriptService/util)
toCompletionItemKind(kind) ==
  CASE kind = "function" -> "Function"
    [] kind = "method" -> "Method"
    [] kind = "property" -> "Field"
    [] kind = "script" -> "File"
    [] kind = "directory" -> "Folder"
    [] OTHER -> "Variable"

\* a completion entry of the service; names and texts are sequences of chunks
CompletionEntry(name, kind, kindModifiers, insertText, replacementSpan, isRecommended) ==
  [name |-> name, kind |-> kind, kindModifiers |-> kindModifiers,
   insertText |-> insertText, replacementSpan |-> replacementSpan,
   isRecommended |-> isRecommended, sortText |-> "0", source |-> None]

endsWithVue(name) == Len(name) > 0 /\ name[Len(name)] = ".vue"

calculateLabelAndDetailTextForPathImport(entry) ==
  IF entry.kind = "script" /\ entry.kindModifiers # <<>>
  THEN [label |-> entry.name, detail |-> Some(entry.name \o entry.kindModifiers)]
  ELSE IF entry.kind = "script" /\ endsWithVue(entry.name)
  THEN [label |-> SubSeq(entry.name, 1, Len(entry.name) - 1), detail |-> Some(entry.name)]
  ELSE [label |-> entry.name, detail |-> None]

\* the token that doResolve reads back (item.data)
ResolutionToken(langId, uri, offset, source) ==
  [languageId |-> langId, uri |-> uri, offset |-> offset, source |-> source]

\* one item of doComplete's list
completionItemOf(doc, scriptText, position, offset, entry) ==
  LET range == IF IsSome(entry.replacementSpan)
               THEN Some(convertRange(scriptText, Get(entry.replacementSpan))) ELSE None
      filterText == IF IsSome(entry.insertText) /\ Get(entry.insertText) # <<>>
                       /\ IsSome(range) /\ Head(Get(entry.insertText)) = "["
                    THEN Some(<<".">> \o entry.name) ELSE None
      ld == calculateLabelAndDetailTextForPathImport(entry)
      kind == toCompletionItemKind(entry.kind)
      insertText == IF IsSome(entry.insertText) /\ Get(entry.insertText) # <<>>
                    THEN Get(entry.insertText) ELSE entry.name
  IN  [uri |-> doc.uri, position |-> position,
       preselect |-> IF entry.isRecommended THEN Some(TRUE) ELSE None,
       label |-> ld.label, detail |-> ld.detail, filterText |-> filterText,
       insertTextFormat |-> IF kind \in {"Function", "Method"} THEN Some("Snippet") ELSE None,
       sortText |-> entry.sortText, kind |-> kind,
       textEdit |-> IF IsSome(range)
                    THEN Some([range |-> Get(range), newText |-> insertText]) ELSE None,
       insertText |-> IF IsSome(range) THEN None ELSE Some(insertText),
       documentation |-> None, additionalTextEdits |-> None,
       data |-> Some(ResolutionToken(languageId(doc.uri), doc.uri, offset, entry.source))]

NotBridge(entry) == entry.name # <<"__vueEditorBridge">>

\* doComplete: the queries it sends and the list it returns
doCompleteRun(doc, position, completions) ==
  LET scriptText == getSingleTypeDocument(doc)
      offset == offsetAt(scriptText, position)
      triggerChar == triggerCharAt(doc.text, offset)
      entries == Filter(Get(completions), NotBridge)
  IN  IF ~languageServiceIncludesFile(doc.uri)
      THEN [q |-> <<>>, r |-> Return(EmptyCompletionList)]
      ELSE IF IsSome(triggerChar) /\ Get(triggerChar) \in NON_SCRIPT_TRIGGERS
      THEN [q |-> <<>>, r |-> Return(EmptyCompletionList)]
      ELSE IF ~IsSome(completions)
      THEN [q |-> <<Q("getCompletionsAtPosition")>>, r |-> Return(EmptyCompletionList)]
      ELSE [q |-> <<Q("getCompletionsAtPosition")>>,
            r |-> Return([isIncomplete |-> FALSE,
                          items |-> [k \in 1..Len(entries) |->
                                       completionItemOf(doc, scriptText, position,
                                                        offset, entries[k])]])]

doComplete(m, uri, position, completions) ==
  LET run == doCompleteRun(docs[uri], position, completions)
  IN  /\ Observe([op |-> "doComplete", m |-> m, uri |-> uri, position |-> position],
                 run.q, run.r)
      /\ UNCHANGED <<docs, modeVars, lastRefactor>>

\* ------------------------------------------------------ completion resolve

\* the source file texts of the service's program: a .vue file's script document,
\* and one plain TypeScript file
getSourceText(fileName) ==
  IF UriFile(fileName) \in Uris THEN getSingleTypeDocument(docs[UriFile(fileName)])
  ELSE <<"x", "\n", "y">>

\* tsModule.displayPartsToString: the parts' texts joined
displayPartsToString(parts) == Flatten(parts)

\* one text change of a code action, in host coordinates
convertTextChange(doc, region, scriptStartOffset, tc) ==
  IF tc.span.start <= scriptStartOffset /\ tc.span.length = 0 /\ IsSome(region)
  THEN [range |-> Range(Position(Get(region).start.line + 1, 0),
                        Position(Get(region).start.line + 1, 0)),
        newText |-> tc.newText]
  ELSE [range |-> convertRange(doc.text, tc.span), newText |-> tc.newText]

\* convertCodeAction, given the first script region that the cache returned
convertCodeAction(doc, codeActions, region) ==
  LET scriptStartOffset == offsetAt(doc.text, Get(region).start)
      editsOfChange(change) ==
        [k \in 1..Len(change.textChanges) |->
           convertTextChange(doc, region, scriptStartOffset, change.textChanges[k])]
      editsOfAction(action) ==
        Flatten([j \in 1..Len(action.changes) |-> editsOfChange(action.changes[j])])
  IN  Flatten([i \in 1..Len(codeActions) |-> editsOfAction(codeActions[i])])

\* the documentation of a resolved item: the details' text, then every
\* code action's description on a line of its own
resolvedDocumentation(details, withActions) ==
  LET described == IF withActions
                   THEN Filter(Get(details.codeActions), LAMBDA a : a.description # "")
                   ELSE <<>>
  IN  [kind |-> "markdown",
       value |-> displayPartsToString(details.documentation)
                 \o (IF withActions
                     THEN Flatten([k \in 1..Len(described) |->
                                     <<"\n", described[k].description>>])
                     ELSE <<>>)]

\* a variant without `delete item.data`
resolvedItem_KeepsData(item, details, edits, withActions) ==
  [item EXCEPT !.detail = Some(displayPartsToString(details.displayParts)),
               !.additionalTextEdits = IF withActions THEN Some(edits) ELSE @,
               !.documentation = Some(resolvedDocumentation(details, withActions))]

\* the item after a successful resolution
resolvedItem(item, details, edits, withActions) ==
  [item EXCEPT !.detail = Some(displayPartsToString(details.displayParts)),
               !.additionalTextEdits = IF withActions THEN Some(edits) ELSE @,
               !.documentation = Some(resolvedDocumentation(details, withActions)),
               !.data = None]

\* doResolve: queries, result, and the firstScriptRegion cache afterwards
doResolveRun(m, doc, item, details) ==
  LET cache == firstScriptRegion[m]
      cfg == Get(config[m])
      q == <<Q("getCompletionEntryDetails")>>
      d == Get(details)
      withActions == IsSome(d.codeActions) /\ cfg.autoImport
      refreshed == cacheRefresh(cache, doc, parseFirstScriptRegion(doc))
      region == cacheGet(cache, doc, parseFirstScriptRegion(doc))
  IN  IF ~languageServiceIncludesFile(doc.uri)
      THEN [q |-> <<>>, r |-> Return(item), cache |-> cache]
      ELSE IF ~IsSome(config[m])
      THEN \* getFormatCodeSettings reads config.vetur.format of the empty object
           [q |-> <<>>, r |-> Throw("TypeError"), cache |-> cache]
      ELSE IF ~(IsSome(details) /\ item.kind \notin {"File", "Folder"})
      THEN [q |-> q, r |-> Return(item), cache |-> cache]
      ELSE IF ~withActions
      THEN [q |-> q, r |-> Return(resolvedItem(item, d, <<>>, FALSE)), cache |-> cache]
      ELSE IF ~IsSome(region)
      THEN \* regionStart.refreshAndGet(doc)!.start of a document with no script
           [q |-> q, r |-> Throw("TypeError"), cache |-> refreshed]
      ELSE [q |-> q,
            r |-> Return(resolvedItem(item, d,
                                      convertCodeAction(doc, Get(d.codeActions), region), TRUE)),
            cache |-> refreshed]

doResolve(m, uri, item, details) ==
  LET run == doResolveRun(m, docs[uri], item, details)
  IN  /\ firstScriptRegion' = [firstScriptRegion EXCEPT ![m] = run.cache]
      /\ Observe([op |-> "doResolve", m |-> m, uri |-> uri, item |-> item,
                  details |-> details], run.q, run.r)
      /\ UNCHANGED <<docs, config, supportedCodeFixCodes, jsDocuments, lastRefactor>>

\* ------------------------------------------------- diagnostics and read-outs

convertTSDiagnosticCategoryToDiagnosticSeverity(c) ==
  CASE c = "Error" -> "Error"
    [] c = "Warning" -> "Warning"
    [] c = "Message" -> "Information"
    [] c = "Suggestion" -> "Hint"

\* one diagnostic of doValidation
convertDiagnostic(scriptText, diag) ==
  [range |-> convertRange(scriptText, TextSpan(diag.start, diag.length)),
   severity |-> convertTSDiagnosticCategoryToDiagnosticSeverity(diag.category),
   message |-> diag.messageText,
   tags |-> IF diag.reportsUnnecessary THEN <<"Unnecessary">> ELSE <<>>,
   code |-> diag.code, source |-> "Vetur"]

\* doValidation, given the three diagnostic lists of the service
doValidationRun(doc, syntactic, semantic, suggestion) ==
  LET scriptText == getSingleTypeDocument(doc)
      raw == syntactic \o semantic \o suggestion
  IN  IF ~languageServiceIncludesFile(doc.uri)
      THEN [q |-> <<>>, r |-> Return(<<>>)]
      ELSE [q |-> <<Q("getSyntacticDiagnostics"), Q("getSemanticDiagnostics"),
                    Q("getSuggestionDiagnostics")>>,
            r |-> Return([k \in 1..Len(raw) |-> convertDiagnostic(scriptText, raw[k])])]

doValidation(m, uri, syntactic, semantic, suggestion) ==
  LET run == doValidationRun(docs[uri], syntactic, semantic, suggestion)
  IN  /\ Observe([op |-> "doValidation", m |-> m, uri |-> uri], run.q, run.r)
      /\ UNCHANGED <<docs, modeVars, lastRefactor>>

NoHover == [range |-> None, contents |-> <<>>]

\* doHover, given the service's quick info
doHoverRun(doc, position, info) ==
  LET scriptText == getSingleTypeDocument(doc)
      display == displayPartsToString(Get(info).displayParts)
      documentation == displayPartsToString(Get(info).documentation)
      marked == <<[language |-> "ts", value |-> display]>>
  IN  IF ~languageServiceIncludesFile(doc.uri)
      THEN [q |-> <<>>, r |-> Return(NoHover)]
      ELSE IF ~IsSome(info)
      THEN [q |-> <<Q("getQuickInfoAtPosition")>>, r |-> Return(NoHover)]
      ELSE [q |-> <<Q("getQuickInfoAtPosition")>>,
            r |-> Return([range |-> Some(convertRange(scriptText, Get(info).textSpan)),
                          contents |-> IF documentation # <<>>
                                       THEN <<[language |-> "", value |-> documentation],
                                              [language |-> "", value |-> <<"\n">>]>> \o marked
                                       ELSE marked])]

doHover(m, uri, position, info) ==
  LET run == doHoverRun(docs[uri], position, info)
  IN  /\ Observe([op |-> "doHover", m |-> m, uri |-> uri, position |-> position],
                 run.q, run.r)
      /\ UNCHANGED <<docs, modeVars, lastRefactor>>

\* nullMode's NULL_SIGNATURE
NULL_SIGNATURE == [activeSignature |-> 0, activeParameter |-> 0, signatures |-> <<>>]

\* the label of one signature: prefix, parameters joined by the separator, suffix
signatureInformation(item) ==
  LET n == Len(item.parameters)
      labelOf(k) == displayPartsToString(item.parameters[k].displayParts)
  IN  [label |-> displayPartsToString(item.prefixDisplayParts)
                 \o Flatten([k \in 1..n |->
                       labelOf(k) \o (IF k < n
                                      THEN displayPartsToString(item.separatorDisplayParts)
                                      ELSE <<>>)])
                 \o displayPartsToString(item.suffixDisplayParts),
       parameters |-> [k \in 1..n |->
                         [label |-> labelOf(k),
                          documentation |->
                            displayPartsToString(item.parameters[k].documentation)]]]

\* doSignatureHelp, given the service's signature help items
doSignatureHelpRun(doc, position, signHelp) ==
  LET h == Get(signHelp)
  IN  IF ~languageServiceIncludesFile(doc.uri)
      THEN [q |-> <<>>, r |-> Return(NULL_SIGNATURE)]
      ELSE IF ~IsSome(signHelp)
      THEN [q |-> <<Q("getSignatureHelpItems")>>, r |-> Return(NULL_SIGNATURE)]
      ELSE [q |-> <<Q("getSignatureHelpItems")>>,
            r |-> Return([activeSignature |-> h.selectedItemIndex,
                          activeParameter |-> h.argumentIndex,
                          signatures |-> [k \in 1..Len(h.items) |->
                                            signatureInformation(h.items[k])]])]

doSignatureHelp(m, uri, position, signHelp) ==
  LET run == doSignatureHelpRun(docs[uri], position, signHelp)
  IN  /\ Observe([op |-> "doSignatureHelp", m |-> m, uri |-> uri, position |-> position],
                 run.q, run.r)
      /\ UNCHANGED <<docs, modeVars, lastRefactor>>

\* findDocumentHighlight, given the service's occurrences
findDocumentHighlightRun(doc, position, occurrences) ==
  LET scriptText == getSingleTypeDocument(doc)
      occ == Get(occurrences)
  IN  IF ~languageServiceIncludesFile(doc.uri)
      THEN [q |-> <<>>, r |-> Return(<<>>)]
      ELSE IF ~IsSome(occurrences)
      THEN [q |-> <<Q("getOccurrencesAtPosition")>>, r |-> Return(<<>>)]
      ELSE [q |-> <<Q("getOccurrencesAtPosition")>>,
            r |-> Return([k \in 1..Len(occ) |->
                            [range |-> convertRange(scriptText, occ[k].textSpan),
                             kind |-> IF occ[k].isWriteAccess THEN "Write" ELSE "Text"]])]

findDocumentHighlight(m, uri, position, occurrences) ==
  LET run == findDocumentHighlightRun(docs[uri], position, occurrences)
  IN  /\ Observe([op |-> "findDocumentHighlight", m |-> m, uri |-> uri,
                  position |-> position], run.q, run.r)
      /\ UNCHANGED <<docs, modeVars, lastRefactor>>

\* the location of a definition or reference in its own file (getSourceDoc builds a
\* document from the file's full text)
locationOf(entry) ==
  [uri |-> UriFile(entry.fileName),
   range |-> convertRange(getSourceText(entry.fileName), entry.textSpan)]

\* findDefinition and findReferences, given the service's entries
findLocationsRun(doc, query, entries) ==
  LET found == Get(entries)
  IN  IF ~languageServiceIncludesFile(doc.uri)
      THEN [q |-> <<>>, r |-> Return(<<>>)]
      ELSE IF ~IsSome(entries)
      THEN [q |-> <<Q(query)>>, r |-> Return(<<>>)]
      ELSE [q |-> <<Q(query)>>,
            r |-> Return([k \in 1..Len(found) |-> locationOf(found[k])])]

findDefinition(m, uri, position, definitions) ==
  LET run == findLocationsRun(docs[uri], "getDefinitionAtPosition", definitions)
  IN  /\ Observe([op |-> "findDefinition", m |-> m, uri |-> uri, position |-> position],
                 run.q, run.r)
      /\ UNCHANGED <<docs, modeVars, lastRefactor>>

findReferences(m, uri, position, references) ==
  LET run == findLocationsRun(docs[uri], "getReferencesAtPosition", references)
  IN  /\ Observe([op |-> "findReferences", m |-> m, uri |-> uri, position |-> position],
                 run.q, run.r)
      /\ UNCHANGED <<docs, modeVars, lastRefactor>>

\* ---------------------------------------------------------- document symbols

\* A navigation bar forest is held in visiting order as a sequence of items
\* [text, kind, span, parent]: parent is the index of the item whose childItems
\* list holds this one, or 0 for an item of the top-level list.
NavItem(text, kind, start, parent) ==
  [text |-> text, kind |-> kind, span |-> TextSpan(start, 1), parent |-> parent]

\* item.childItems, as indices into the forest, in list order (0: the top-level list)
childItems(forest, i) ==
  LET kids == {j \in 1..Len(forest) : forest[j].parent = i}
  IN  [k \in 1..Cardinality(kids) |->
         CHOOSE j \in kids : Cardinality({h \in kids : h < j}) = k - 1]

\* toSymbolKind (services/typescriptService/util)
toSymbolKind(kind) ==
  CASE kind \in {"var", "local var", "const"} -> "Variable"
    [] kind \in {"function", "local function"} -> "Function"
    [] kind = "class" -> "Class"
    [] kind = "method" -> "Method"
    [] OTHER -> "Variable"

\* the key under which an emitted item is remembered
symbolSig(item) == item.text \o item.kind \o ToString(item.span.start)

\* a variant that does not look at the existing keys
emitsSymbol_NoDedup(item, existing) == item.kind # "script"

\* whether collectSymbols emits the item
emitsSymbol(item, existing) ==
  item.kind # "script" /\ symbolSig(item) \notin existing

RECURSIVE collectSymbols(_, _, _, _, _, _)
RECURSIVE collectChildItems(_, _, _, _, _, _)
\* collectSymbols(item, containerLabel) on item i of the forest; acc holds the
\* result list and the existing keys so far
collectSymbols(doc, scriptText, forest, i, containerLabel, acc) ==
  LET item == forest[i]
      emit == emitsSymbol(item, acc.existing)
      symbol == [name |-> item.text, kind |-> toSymbolKind(item.kind),
                 location |-> [uri |-> doc.uri,
                               range |-> convertRange(scriptText, item.span)],
                 containerName |-> containerLabel]
      acc1 == IF emit
              THEN [result |-> Append(acc.result, symbol),
                    existing |-> acc.existing \cup {symbolSig(item)}]
              ELSE acc
      label1 == IF emit THEN Some(item.text) ELSE containerLabel
  IN  collectChildItems(doc, scriptText, forest, childItems(forest, i), label1, acc1)

\* the loop over a childItems list (and over the top-level list)
collectChildItems(doc, scriptText, forest, items, containerLabel, acc) ==
  IF items = <<>> THEN acc
  ELSE collectChildItems(doc, scriptText, forest, Tail(items), containerLabel,
         collectSymbols(doc, scriptText, forest, Head(items), containerLabel, acc))

\* findDocumentSymbols, given the service's navigation bar items
findDocumentSymbolsRun(doc, items) ==
  LET scriptText == getSingleTypeDocument(doc)
      forest == Get(items)
      top == childItems(forest, 0)
      \* every top-level item is collected with no container label
      collected == collectChildItems(doc, scriptText, forest, top, None,
                                     [result |-> <<>>, existing |-> {}])
  IN  IF ~languageServiceIncludesFile(doc.uri)
      THEN [q |-> <<>>, r |-> Return(<<>>)]
      ELSE IF ~IsSome(items)
      THEN [q |-> <<Q("getNavigationBarItems")>>, r |-> Return(<<>>)]
      ELSE [q |-> <<Q("getNavigationBarItems")>>, r |-> Return(collected.result)]

findDocumentSymbols(m, uri, items) ==
  LET run == findDocumentSymbolsRun(docs[uri], items)
  IN  /\ Observe([op |-> "findDocumentSymbols", m |-> m, uri |-> uri, items |-> items],
                 run.q, run.r)
      /\ UNCHANGED <<docs, modeVars, lastRefactor>>

\* ------------------------------------------------------------ code actions

\* ts.getSupportedCodeFixes(): the error codes with a registered fix, as strings
TsSupportedCodeFixes == <<"2304", "6133">>

\* Number(s): a number, or None for NaN
Number(s) ==
  CASE s = "2304" -> Some(2304)
    [] s = "6133" -> Some(6133)
    [] s = "7006" -> Some(7006)
    [] OTHER -> None

\* the set built at lines 442-447
newSupportedCodeFixCodes ==
  {Get(Number(TsSupportedCodeFixes[k])) :
     k \in {j \in 1..Len(TsSupportedCodeFixes) : IsSome(Number(TsSupportedCodeFixes[j]))}}

\* a variant that builds the set on every call
buildsSupportedCodes_Always(current) == TRUE

\* whether getCodeActions builds the set: if (!supportedCodeFixCodes)
buildsSupportedCodes(current) == ~IsSome(current)

EmptyMapping == [u \in {} |-> <<>>]

\* the files of the service's program (program.getSourceFile finds these)
ProgramFiles == rootFileNames \cup {"/c.ts"}

\* the TextEdits of one file's text changes, positions taken in that file's text
editsOfChange(change) ==
  [k \in 1..Len(change.textChanges) |->
     [newText |-> change.textChanges[k].newText,
      range |-> convertRange(getSourceText(change.fileName),
                             change.textChanges[k].span)]]

RECURSIVE createUriMappingFrom_Overwrite(_, _)
\* a variant in which a later entry of a file replaces the earlier ones
createUriMappingFrom_Overwrite(result, changes) ==
  IF changes = <<>> THEN result
  ELSE createUriMappingFrom_Overwrite(
         [u \in DOMAIN result \cup {UriFile(Head(changes).fileName)} |->
            IF u = UriFile(Head(changes).fileName) THEN editsOfChange(Head(changes)) ELSE result[u]],
         Tail(changes))

RECURSIVE createUriMappingFrom(_, _)
\* the loop of createUriMappingForEdits over the changes, from a result so far
createUriMappingFrom(result, changes) ==
  IF changes = <<>> THEN result
  ELSE LET uri == UriFile(Head(changes).fileName)
           edits == editsOfChange(Head(changes))
       IN  createUriMappingFrom(
             IF uri \in DOMAIN result
             THEN [result EXCEPT ![uri] = @ \o edits]
             ELSE [u \in DOMAIN result \cup {uri} |->
                     IF u = uri THEN edits ELSE result[u]],
             Tail(changes))

\* a variant whose result object outlives the call: the mapping starts from the
\* mapping of the last refactor resolution
createUriMappingForEdits_Kept(changes) ==
  createUriMappingFrom(
    IF IsSome(lastRefactor) /\ Get(lastRefactor).result.status = "ok"
    THEN Get(lastRefactor).result.value.arguments[1].changes ELSE EmptyMapping,
    changes)

\* createUriMappingForEdits: the edits of each file, from an empty result object
createUriMappingForEdits(changes) == createUriMappingFrom(EmptyMapping, changes)

\* getSourceDoc fails on a file that the program does not hold
mappingThrows(changes) ==
  \E k \in 1..Len(changes) : changes[k].fileName \notin ProgramFiles

createRequestCodeActionCommand(title, action) ==
  [title |-> title, command |-> "vetur.chooseTypeScriptCodeAction",
   arguments |-> <<action>>]

createApplyCodeActionCommand(title, uriTextEditMapping) ==
  [title |-> title, command |-> "vetur.applyWorkspaceEdits",
   arguments |-> <<[changes |-> uriTextEditMapping]>>]

CodeActionReq(kind, fileName, textRange, formatSettings, arguments) ==
  [kind |-> kind, fileName |-> fileName, textRange |-> textRange,
   formatSettings |-> formatSettings, preferences |-> <<>>, arguments |-> arguments]

\* +d.code: the number of a diagnostic's code, None for NaN (no code)
toNumber(code) == code

\* a variant without the filter: every numeric code of the context
fixableDiagnosticCodes_Unfiltered(diagnostics, supported) ==
  LET nums == [k \in 1..Len(diagnostics) |-> toNumber(diagnostics[k].code)]
      known == Filter(nums, LAMBDA c : IsSome(c))
  IN  [k \in 1..Len(known) |-> Get(known[k])]

\* context.diagnostics.map(d => +d.code!).filter(c => supportedCodeFixCodes.has(c))
fixableDiagnosticCodes(diagnostics, supported) ==
  LET nums == [k \in 1..Len(diagnostics) |-> toNumber(diagnostics[k].code)]
      fixable == Filter(nums, LAMBDA c : IsSome(c) /\ Get(c) \in supported)
  IN  [k \in 1..Len(fixable) |-> Get(fixable[k])]

RECURSIVE deduplicate(_)
deduplicate(codes) ==
  IF codes = <<>> THEN <<>>
  ELSE LET rest == deduplicate(SubSeq(codes, 1, Len(codes) - 1))
           last == codes[Len(codes)]
       IN  IF \E k \in 1..Len(rest) : rest[k] = last THEN rest ELSE Append(rest, last)

\* LanguageService.getCodeFixesAtPosition: the registered fixes of each distinct
\* error code asked for; fixesFor is the service's answer per error code
getCodeFixesAtPosition(fixesFor, errorCodes) ==
  LET codes == deduplicate(errorCodes)
  IN  Flatten([k \in 1..Len(codes) |->
                 IF codes[k] \in DOMAIN fixesFor THEN fixesFor[codes[k]] ELSE <<>>])

\* the actions of one code fix
quickFixActions(fileName, textRange, context, formatSettings, fix) ==
  <<[title |-> fix.description, kind |-> "quickfix",
     diagnostics |-> Some(context.diagnostics),
     command |-> createApplyCodeActionCommand(fix.description,
                                              createUriMappingForEdits(fix.changes))]>>
  \o (IF IsSome(fix.fixAllDescription) /\ IsSome(fix.fixId)
      THEN <<[title |-> Get(fix.fixAllDescription), kind |-> "quickfix",
              diagnostics |-> Some(context.diagnostics),
              command |-> createRequestCodeActionCommand(
                            Get(fix.fixAllDescription),
                            CodeActionReq("CombinedCodeFix", fileName, textRange,
                                          formatSettings, [fixId |-> Get(fix.fixId)]))]>>
      ELSE <<>>)

\* provideQuickFixCodeActions: the queries it sends and the actions it appends
provideQuickFixCodeActions(fileName, textRange, context, supported, formatSettings, fixesFor) ==
  LET codes == fixableDiagnosticCodes(context.diagnostics, supported)
      fixes == getCodeFixesAtPosition(fixesFor, codes)
  IN  IF IsSome(context.only) /\ "quickfix" \notin Get(context.only)
      THEN [q |-> <<>>, actions |-> <<>>, throws |-> FALSE]
      ELSE [q |-> <<QA("getCodeFixesAtPosition", codes)>>,
            actions |-> Flatten([k \in 1..Len(fixes) |->
                                   quickFixActions(fileName, textRange, context,
                                                   formatSettings, fixes[k])]),
            throws |-> \E k \in 1..Len(fixes) : mappingThrows(fixes[k].changes)]

\* a variant that also offers the action when no filter is given
provideOrganizeImports_NoFilter(fileName, textRange, context, formatSettings) ==
  IF IsSome(context.only) /\ "source.organizeImports" \notin Get(context.only) /\ "source" \notin Get(context.only)
  THEN <<>>
  ELSE <<[title |-> "Organize Imports", kind |-> "source.organizeImports",
          diagnostics |-> None,
          command |-> createRequestCodeActionCommand(
                        "Organize Imports",
                        CodeActionReq("OrganizeImports", fileName, textRange,
                                      formatSettings, <<>>))]>>

\* provideOrganizeImports
provideOrganizeImports(fileName, textRange, context, formatSettings) ==
  IF \/ ~IsSome(context.only)
     \/ ("source.organizeImports" \notin Get(context.only)
         /\ "source" \notin Get(context.only))
  THEN <<>>
  ELSE <<[title |-> "Organize Imports", kind |-> "source.organizeImports",
          diagnostics |-> None,
          command |-> createRequestCodeActionCommand(
                        "Organize Imports",
                        CodeActionReq("OrganizeImports", fileName, textRange,
                                      formatSettings, <<>>))]>>

RefactorKinds ==
  {"refactor", "refactor.extract", "refactor.inline", "refactor.rewrite", "source"}

\* a variant that takes the sub-actions of every refactor
refactorRequests_SubActions(fileName, textRange, formatSettings, refactoring) ==
  [k \in 1..Len(refactoring.actions) |->
     CodeActionReq("RefactorAction", fileName, textRange, formatSettings,
                   [refactorName |-> refactoring.name,
                    actionName |-> refactoring.actions[k].name,
                    description |-> refactoring.actions[k].description])]

\* the deferred requests of one applicable refactor
refactorRequests(fileName, textRange, formatSettings, refactoring) ==
  IF refactoring.inlineable
  THEN <<CodeActionReq("RefactorAction", fileName, textRange, formatSettings,
                       [refactorName |-> refactoring.name,
                        actionName |-> refactoring.name,
                        description |-> refactoring.description])>>
  ELSE [k \in 1..Len(refactoring.actions) |->
          CodeActionReq("RefactorAction", fileName, textRange, formatSettings,
                        [refactorName |-> refactoring.name,
                         actionName |-> refactoring.actions[k].name,
                         description |-> refactoring.actions[k].description])]

\* a variant that asks for the refactors whatever the filter is
provideRefactoringCommands_Ungated(fileName, textRange, context, formatSettings, refactorings) ==
  LET actions == Flatten([k \in 1..Len(refactorings) |->
                            refactorRequests(fileName, textRange, formatSettings,
                                             refactorings[k])])
  IN  [q |-> <<Q("getApplicableRefactors")>>,
       actions |-> [k \in 1..Len(actions) |->
                      [title |-> actions[k].arguments.description,
                       kind |-> "refactor", diagnostics |-> None,
                       command |-> createRequestCodeActionCommand(
                                     actions[k].arguments.description,
                                     actions[k])]]]

\* provideRefactoringCommands: the queries it sends and the actions it appends
provideRefactoringCommands(fileName, textRange, context, formatSettings, refactorings) ==
  LET actions == Flatten([k \in 1..Len(refactorings) |->
                            refactorRequests(fileName, textRange, formatSettings,
                                             refactorings[k])])
  IN  IF IsSome(context.only) /\ Get(context.only) \cap RefactorKinds = {}
      THEN [q |-> <<>>, actions |-> <<>>]
      ELSE [q |-> <<Q("getApplicableRefactors")>>,
            actions |-> [k \in 1..Len(actions) |->
                           [title |-> actions[k].arguments.description,
                            kind |-> "refactor", diagnostics |-> None,
                            command |-> createRequestCodeActionCommand(
                                          actions[k].arguments.description,
                                          actions[k])]]]

\* getCodeActions: queries, result, and the supported code set afterwards
getCodeActionsRun(m, doc, range, context, fixesFor, refactorings) ==
  LET scriptText == getSingleTypeDocument(doc)
      fileName == getFilePath(doc.uri)
      textRange == [pos |-> offsetAt(scriptText, range.start),
                    end |-> offsetAt(scriptText, range.end)]
      builds == buildsSupportedCodes(supportedCodeFixCodes[m])
      supported == IF builds THEN newSupportedCodeFixCodes
                   ELSE Get(supportedCodeFixCodes[m])
      q0 == IF builds THEN <<Q("getSupportedCodeFixes")>> ELSE <<>>
      formatSettings == getFormatCodeSettings(Get(config[m]))
      quick == provideQuickFixCodeActions(fileName, textRange, context, supported,
                                          formatSettings, fixesFor)
      organize == provideOrganizeImports(fileName, textRange, context, formatSettings)
      refactor == provideRefactoringCommands(fileName, textRange, context,
                                             formatSettings, refactorings)
  IN  IF ~IsSome(config[m])
      THEN \* getFormatCodeSettings reads config.vetur.format of the empty object
           [q |-> q0, r |-> Throw("TypeError"), supported |-> Some(supported)]
      ELSE IF quick.throws
      THEN [q |-> q0 \o quick.q, r |-> Throw("TypeError"), supported |-> Some(supported)]
      ELSE [q |-> q0 \o quick.q \o refactor.q,
            r |-> Return(quick.actions \o organize \o refactor.actions),
            supported |-> Some(supported)]

getCodeActions(m, uri, range, context, fixesFor, refactorings) ==
  LET run == getCodeActionsRun(m, docs[uri], range, context, fixesFor, refactorings)
  IN  /\ supportedCodeFixCodes' = [supportedCodeFixCodes EXCEPT ![m] = run.supported]
      /\ Observe([op |-> "getCodeActions", m |-> m, uri |-> uri, range |-> range,
                  context |-> context, fixesFor |-> fixesFor,
                  refactorings |-> refactorings], run.q, run.r)
      /\ UNCHANGED <<docs, config, jsDocuments, firstScriptRegion, lastRefactor>>

\* getCodeActionEdits, given the answer of the service call the request names
getCodeActionEditsRun(req, answer) ==
  LET changes == IF req.kind = "RefactorAction" THEN Get(answer).edits
                 ELSE IF req.kind = "CombinedCodeFix" THEN Get(answer).changes
                 ELSE Get(answer)
      q == IF req.kind = "RefactorAction" THEN <<Q("getEditsForRefactor")>>
           ELSE IF req.kind = "CombinedCodeFix" THEN <<Q("getCombinedCodeFix")>>
           ELSE IF req.kind = "OrganizeImports" THEN <<Q("organizeImports")>>
           ELSE <<>>
  IN  IF req.kind \notin {"RefactorAction", "CombinedCodeFix", "OrganizeImports"}
      THEN [q |-> q, r |-> Return(createApplyCodeActionCommand("", EmptyMapping))]
      ELSE IF ~IsSome(answer)
      THEN IF req.kind = "RefactorAction"
           THEN [q |-> q, r |-> Return(createApplyCodeActionCommand("", EmptyMapping))]
           ELSE \* fix.changes and response.slice() of no object
                [q |-> q, r |-> Throw("TypeError")]
      ELSE IF mappingThrows(changes)
      THEN [q |-> q, r |-> Throw("TypeError")]
      ELSE [q |-> q,
            r |-> Return(createApplyCodeActionCommand("",
                                                      createUriMappingForEdits(changes)))]

\* The service answers a refactor request from its program alone: asked again for
\* an unchanged document, it gives the answer it gave before.
getCodeActionEdits(m, uri, req, answer) ==
  LET run == getCodeActionEditsRun(req, answer)
      same == IsSome(lastRefactor) /\ Get(lastRefactor).uri = uri
              /\ Get(lastRefactor).req = req
  IN  /\ (req.kind = "RefactorAction" /\ same) => answer = Get(lastRefactor).answer
      /\ lastRefactor' = IF req.kind = "RefactorAction" /\ ~same
                         THEN Some([uri |-> uri, req |-> req, answer |-> answer,
                                    result |-> run.r])
                         ELSE lastRefactor
      /\ Observe([op |-> "getCodeActionEdits", m |-> m, uri |-> uri, req |-> req,
                  answer |-> answer, again |-> req.kind = "RefactorAction" /\ same],
                 run.q, run.r)
      /\ UNCHANGED <<docs, modeVars>>

\* ---------------------------------------------------------------- format

\* convertOptions: _.assign writes the four fields into formatSettings itself
convertOptions(formatSettings, options, initialIndentLevel) ==
  Assign(formatSettings,
         [convertTabsToSpaces |-> options.insertSpaces, tabSize |-> options.tabSize,
          indentSize |-> options.tabSize,
          baseIndentSize |-> options.tabSize * initialIndentLevel])

\* a variant that looks at the start of the span only
insideRange_StartOnly(e, start, end) == e.span.start >= start

\* whether format keeps an edit of the service: its span lies inside [start, end]
insideRange(e, start, end) ==
  e.span.start >= start /\ e.span.start + e.span.length <= end

\* format: queries, result, and the configuration object afterwards;
\* edits is the answer of getFormattingEditsForRange, prettierEdits that of the
\* external formatter
formatRun(m, doc, range, edits, prettierEdits) ==
  LET cfg == Get(config[m])
      scriptText == getSingleTypeDocument(doc)
      js == languageId(doc.uri) = "javascript"
      defaultFormatter == IF js THEN cfg.formatterJs ELSE cfg.formatterTs
      initialIndentLevel == IF cfg.scriptInitialIndent THEN 1 ELSE 0
      formatSettings == IF js THEN cfg.jsFormat ELSE cfg.tsFormat
      converted == convertOptions(formatSettings,
                                  [tabSize |-> cfg.tabSize, insertSpaces |-> ~cfg.useTabs],
                                  initialIndentLevel)
      cfg1 == IF js THEN [cfg EXCEPT !.jsFormat = converted]
              ELSE [cfg EXCEPT !.tsFormat = converted]
      start == offsetAt(scriptText, range.start)
      end == offsetAt(scriptText, range.end)
      kept == Filter(Get(edits), LAMBDA e : insideRange(e, start, end))
  IN  IF ~IsSome(config[m])
      THEN \* config.vetur.format of the empty object
           [q |-> <<>>, r |-> Throw("TypeError"), config |-> config[m]]
      ELSE IF defaultFormatter = "none"
      THEN [q |-> <<>>, r |-> Return(<<>>), config |-> config[m]]
      ELSE IF defaultFormatter \in {"prettier", "prettier-eslint", "prettier-tslint"}
      THEN [q |-> <<Q(defaultFormatter)>>, r |-> Return(prettierEdits),
            config |-> config[m]]
      ELSE IF ~IsSome(edits)
      THEN [q |-> <<QA("getFormattingEditsForRange", <<start, end>>)>>,
            r |-> Return(<<>>), config |-> Some(cfg1)]
      ELSE [q |-> <<QA("getFormattingEditsForRange", <<start, end>>)>>,
            r |-> Return([k \in 1..Len(kept) |->
                            [range |-> convertRange(scriptText, kept[k].span),
                             newText |-> kept[k].newText]]),
            config |-> Some(cfg1)]

format(m, uri, range, edits, prettierEdits) ==
  LET run == formatRun(m, docs[uri], range, edits, prettierEdits)
  IN  /\ config' = [config EXCEPT ![m] = run.config]
      /\ Observe([op |-> "format", m |-> m, uri |-> uri, range |-> range,
                  edits |-> edits], run.q, run.r)
      /\ UNCHANGED <<docs, supportedCodeFixCodes, jsDocuments, firstScriptRegion,
                     lastRefactor>>

\* ------------------------------------------------- component info (types)

\* a declaration of a class member or of an object-literal property: its
\* name, its syntax kind, its decorators (None when it has none), the parts of
\* its documentation comment and its source text
Declaration(name, kind, decorators, comment, text) == [name |-> name, kind |-> kind, decorators |-> decorators, comment |-> comment, text |-> text]

\* a decorator: the text of its callee (or of the whole expression when it is
\* not a call), whether it is a call, and the types of the call's arguments
Decorator(name, isCall, arguments) == [name |-> name, isCall |-> isCall, arguments |-> arguments]

\* a symbol: the declarations bound to one name, in source order
Symbol(name, declarations) == [name |-> name, declarations |-> declarations]

\* symbol.valueDeclaration: the first declaration bound to the name
valueDeclaration(s) == IF s.declarations = <<>> THEN None ELSE Some(s.declarations[1])

\* symbol.getDocumentationComment(checker): the comment parts of the symbol's
\* declarations
getDocumentationComment(s) == Flatten([i \in 1..Len(s.declarations) |-> s.declarations[i].comment])

\* whether the binder adds declaration d to symbol s: a get accessor and a
\* set accessor of one name are declarations of one symbol; any other second
\* declaration of a name is a duplicate, which stays out of the symbol
mergesInto(s, d) ==
  /\ s.name = d.name
  /\ d.kind \in {"GetAccessor", "SetAccessor"}
  /\ \A i \in 1..Len(s.declarations) : s.declarations[i].kind \in {"GetAccessor", "SetAccessor"} \ {d.kind}

\* the symbols of the members declared so far, with declaration d bound
declareSymbol(symbols, d) ==
  IF \E i \in 1..Len(symbols) : symbols[i].name = d.name
  THEN [i \in 1..Len(symbols) |-> IF mergesInto(symbols[i], d) THEN Symbol(symbols[i].name, Append(symbols[i].declarations, d)) ELSE symbols[i]]
  ELSE Append(symbols, Symbol(d.name, <<d>>))

RECURSIVE bindMembers(_, _)
bindMembers(symbols, members) ==
  IF members = <<>> THEN symbols ELSE bindMembers(declareSymbol(symbols, Head(members)), Tail(members))

\* type.getProperties() of a class type: one symbol per member name, in the
\* order of the first declaration of each name, then the properties the class
\* inherits from its base type
getProperties(type) == bindMembers(<<>>, type.members) \o type.inherited

\* a class type: the member declarations of the class, the decorators of the
\* class declaration (None when it has none), and the symbols of the properties
\* of its base type; a property that a mapped type gives the base type is a
\* symbol without a value declaration
InheritingClassType(members, decorators, inherited) == [isClass |-> TRUE, members |-> members, decorators |-> decorators, inherited |-> inherited]

\* a class type with no inherited property
ClassType(members, decorators) == InheritingClassType(members, decorators, <<>>)

\* an option of a component's object literal (props, data, computed, methods):
\* whether its symbol has a value declaration, the last child of that
\* declaration, the properties of the option's type, and the properties of the
\* return type of each call signature of the option's type
OptionSymbol(name, hasValueDeclaration, lastChild, properties, signatures) == [name |-> name, hasValueDeclaration |-> hasValueDeclaration, lastChild |-> lastChild, properties |-> properties, signatures |-> signatures]

\* the type of an object literal: its option symbols
ObjectType(options) == [isClass |-> FALSE, options |-> options]

\* checker.getPropertyOfType(type, name): the option of that name, if any
getPropertyOfType(type, name) ==
  LET found == SelectSeq(type.options, LAMBDA o : o.name = name)
  IN  IF found = <<>> THEN None ELSE Some(found[1])

\* the expression an option's declaration ends in: its syntax kind and, for an
\* array literal, its elements
Expression(kind, elements) == [kind |-> kind, elements |-> elements]

\* an element of an array literal: its syntax kind and its text
Element(kind, text) == [kind |-> kind, text |-> text]

\* getLastChild(d): the last child of the option's declaration, if any
getLastChild(option) == option.lastChild

isClassType(type) == type.isClass

\* ------------------------------------------------- component info (texts)

\* String.prototype.split('\n')
RECURSIVE split(_)
split(src) ==
  LET breaks == {i \in 1..Len(src) : src[i] = "\n"}
  IN  IF breaks = {} THEN <<src>>
      ELSE LET b == CHOOSE i \in breaks : \A j \in breaks : i <= j
           IN  <<SubSeq(src, 1, b - 1)>> \o split(SubSeq(src, b + 1, Len(src)))

\* Array.prototype.join(sep)
RECURSIVE join(_, _)
join(parts, sep) ==
  IF parts = <<>> THEN <<>>
  ELSE IF Len(parts) = 1 THEN parts[1]
  ELSE parts[1] \o sep \o join(Tail(parts), sep)

WhiteSpace == {" ", "\n", "\t"}

\* String.prototype.search(/\S/): the index of the first character that is
\* not white space, counted from 0, or -1 when there is none
search(s) ==
  LET found == {i \in 1..Len(s) : s[i] \notin WhiteSpace}
  IN  IF found = {} THEN -1 ELSE (CHOOSE i \in found : \A j \in found : i <= j) - 1

\* String.prototype.slice(start): a negative start counts from the end
slice(s, start) ==
  LET from == IF start < 0 THEN Max(Len(s) + start, 0) ELSE Min(start, Len(s))
  IN  SubSeq(s, from + 1, Len(s))

formatJSLikeDocumentation(src) ==
  LET segments == split(src)
  IN  IF Len(segments) = 1 THEN src
      ELSE LET spacesToDeindent == search(segments[Len(segments)])
               rest == Tail(segments)
           IN  segments[1] \o <<"\n">> \o join([i \in 1..Len(rest) |-> slice(rest[i], spacesToDeindent)], <<"\n">>)

\* the grave accent U+0060, named because a string here cannot hold it
GraveAccent == "U+0060"

JsFence == <<GraveAccent, GraveAccent, GraveAccent, "j", "s", "\n">>
EndFence == <<"\n", GraveAccent, GraveAccent, GraveAccent, "\n">>

buildDocumentation(s) ==
  LET documentation == join(getDocumentationComment(s), <<"\n">>) \o <<"\n">>
  IN  IF IsSome(valueDeclaration(s))
      THEN documentation \o JsFence \o formatJSLikeDocumentation(Get(valueDeclaration(s)).text) \o EndFence
      ELSE documentation

\* an entry of a category list: documentation is None for an array-style prop
Entry(name, documentation) == [name |-> name, documentation |-> documentation]

\* ------------------------------------------- component info (extraction)

\* value || []
OrEmpty(value) == IF IsSome(value) THEN Get(value) ELSE <<>>

\* a variant that finds no decorator on any member
getPropertyDecoratorNames_None(property, checkSyntaxKind) == <<>>

\* the names of the decorators of the symbol's first declaration; none when
\* the value declaration is not of the syntax kind asked for
getPropertyDecoratorNames(property, checkSyntaxKind) ==
  IF Get(valueDeclaration(property)).kind # checkSyntaxKind THEN <<>>
  ELSE IF Len(property.declarations) = 0 THEN <<>>
  ELSE LET decorators == property.declarations[1].decorators
       IN  IF ~IsSome(decorators) THEN <<>>
           ELSE [i \in 1..Len(Get(decorators)) |-> Get(decorators)[i].name]

\* names.some(name => name is one of these)
someIn(names, these) == \E i \in 1..Len(names) : names[i] \in these

\* symbols.map(s => ({ name: s.name, documentation: buildDocumentation(s) }))
entriesOf(symbols) == [i \in 1..Len(symbols) |-> Entry(symbols[i].name, Some(buildDocumentation(symbols[i])))]

\* symbols.length === 0 ? undefined : the entries of the symbols
classEntries(symbols) == IF symbols = <<>> THEN None ELSE Some(entriesOf(symbols))

propDecoratorNames == {"Prop", "Model", "PropSync"}

getClassProps(type) == classEntries(Filter(getProperties(type), LAMBDA property : someIn(getPropertyDecoratorNames(property, "PropertyDeclaration"), propDecoratorNames)))

\* the entries of an option whose declaration ends in an object literal
objectLiteralEntries(type, name) ==
  LET symbol == getPropertyOfType(type, name)
  IN  IF ~IsSome(symbol) \/ ~Get(symbol).hasValueDeclaration THEN None
      ELSE LET declaration == getLastChild(Get(symbol))
           IN  IF ~IsSome(declaration) THEN None
               ELSE IF Get(declaration).kind = "ObjectLiteralExpression" THEN Some(entriesOf(Get(symbol).properties))
               ELSE None

getObjectProps(type) ==
  LET propsSymbol == getPropertyOfType(type, "props")
  IN  IF ~IsSome(propsSymbol) \/ ~Get(propsSymbol).hasValueDeclaration THEN None
      ELSE LET propsDeclaration == getLastChild(Get(propsSymbol))
           IN  IF ~IsSome(propsDeclaration) THEN None
               ELSE IF Get(propsDeclaration).kind = "ArrayLiteralExpression"
               THEN LET literals == Filter(Get(propsDeclaration).elements, LAMBDA expr : expr.kind = "StringLiteral")
                    IN  Some([i \in 1..Len(literals) |-> Entry(literals[i].text, None)])
               ELSE objectLiteralEntries(type, "props")

noDataDecoratorNames == {"Prop", "Model", "Provide", "ProvideReactive", "Ref"}

\* name.startsWith(prefix) for a one-character prefix
startsWith(name, prefix) == name # <<>> /\ name[1] = prefix

getClassData(type) == classEntries(Filter(getProperties(type), LAMBDA property : /\ ~someIn(getPropertyDecoratorNames(property, "PropertyDeclaration"), noDataDecoratorNames) /\ ~startsWith(property.name, "_") /\ ~startsWith(property.name, "$")))

getObjectData(type) ==
  LET dataSymbol == getPropertyOfType(type, "data")
  IN  IF ~IsSome(dataSymbol) \/ ~Get(dataSymbol).hasValueDeclaration THEN None
      ELSE LET dataSignatures == Get(dataSymbol).signatures
           IN  IF Len(dataSignatures) = 0 THEN None ELSE Some(entriesOf(dataSignatures[1]))

getClassComputed(type) ==
  LET getAccessorSymbols == Filter(getProperties(type), LAMBDA property : Get(valueDeclaration(property)).kind = "GetAccessor")
      setAccessorSymbols == Filter(getProperties(type), LAMBDA property : Get(valueDeclaration(property)).kind = "SetAccessor")
      setComputed(computed) == Filter(setAccessorSymbols, LAMBDA setAccessor : setAccessor.name = computed.name)
      documentation(computed) == buildDocumentation(computed) \o (IF setComputed(computed) # <<>> THEN buildDocumentation(setComputed(computed)[1]) ELSE <<>>)
  IN  IF getAccessorSymbols = <<>> THEN None
      ELSE Some([i \in 1..Len(getAccessorSymbols) |-> Entry(getAccessorSymbols[i].name, Some(documentation(getAccessorSymbols[i])))])

getObjectComputed(type) == objectLiteralEntries(type, "computed")

internalHooks ==
  {<<"d", "a", "t", "a">>,
   <<"b", "e", "f", "o", "r", "e", "C", "r", "e", "a", "t", "e">>,
   <<"c", "r", "e", "a", "t", "e", "d">>,
   <<"b", "e", "f", "o", "r", "e", "M", "o", "u", "n", "t">>,
   <<"m", "o", "u", "n", "t", "e", "d">>,
   <<"b", "e", "f", "o", "r", "e", "D", "e", "s", "t", "r", "o", "y">>,
   <<"d", "e", "s", "t", "r", "o", "y", "e", "d">>,
   <<"b", "e", "f", "o", "r", "e", "U", "p", "d", "a", "t", "e">>,
   <<"u", "p", "d", "a", "t", "e", "d">>,
   <<"a", "c", "t", "i", "v", "a", "t", "e", "d">>,
   <<"d", "e", "a", "c", "t", "i", "v", "a", "t", "e", "d">>,
   <<"r", "e", "n", "d", "e", "r">>,
   <<"e", "r", "r", "o", "r", "C", "a", "p", "t", "u", "r", "e", "d">>,
   <<"s", "e", "r", "v", "e", "r", "P", "r", "e", "f", "e", "t", "c", "h">>}

isInternalHook(methodName) == methodName \in internalHooks

getClassMethods(type) == classEntries(Filter(getProperties(type), LAMBDA property : /\ ~someIn(getPropertyDecoratorNames(property, "MethodDeclaration"), {"Watch"}) /\ ~isInternalHook(property.name)))

getObjectMethods(type) == objectLiteralEntries(type, "methods")

\* the type of the first argument of the class's Component decorator, when
\* the first decorator named Component is a call with an argument
getComponentDecoratorArgumentType(type) ==
  LET decorators == type.decorators
  IN  IF ~IsSome(decorators) \/ Get(decorators) = <<>> THEN None
      ELSE LET named == Filter(Get(decorators), LAMBDA el : el.name = "Component")
           IN  IF named = <<>> \/ ~named[1].isCall THEN None
               ELSE IF named[1].arguments = <<>> THEN None
               ELSE Some(named[1].arguments[1])

\* a variant that puts the pushed items in front
pushAll_InFront(result, items) == items \o result

\* result.push.apply(result, items)
pushAll(result, items) == result \o items

\* the two callbacks are passed by their results: classResult is
\* getClassResult(defaultExportType), argumentResult is getObjectResult of the
\* decorator argument's type, objectResult is getObjectResult(defaultExportType)
getClassAndObjectInfo(defaultExportType, classResult, argumentResult, objectResult) ==
  IF isClassType(defaultExportType)
  THEN pushAll(pushAll(<<>>, OrEmpty(classResult)), IF IsSome(getComponentDecoratorArgumentType(defaultExportType)) THEN OrEmpty(argumentResult) ELSE <<>>)
  ELSE pushAll(<<>>, OrEmpty(objectResult))

\* the type of the argument of the Component decorator, read where it exists
decoratorArgumentType(defaultExportType) == Get(getComponentDecoratorArgumentType(defaultExportType))

\* result.length === 0 ? undefined : result
resultOrUndefined(result) == IF Len(result) = 0 THEN None ELSE Some(result)

getProps(defaultExportType) == resultOrUndefined(getClassAndObjectInfo(defaultExportType, getClassProps(defaultExportType), getObjectProps(decoratorArgumentType(defaultExportType)), getObjectProps(defaultExportType)))

getData(defaultExportType) == resultOrUndefined(getClassAndObjectInfo(defaultExportType, getClassData(defaultExportType), getObjectData(decoratorArgumentType(defaultExportType)), getObjectData(defaultExportType)))

getComputed(defaultExportType) == resultOrUndefined(getClassAndObjectInfo(defaultExportType, getClassComputed(defaultExportType), getObjectComputed(decoratorArgumentType(defaultExportType)), getObjectComputed(defaultExportType)))

getMethods(defaultExportType) == resultOrUndefined(getClassAndObjectInfo(defaultExportType, getClassMethods(defaultExportType), getObjectMethods(decoratorArgumentType(defaultExportType)), getObjectMethods(defaultExportType)))

\* whether the analysis of the type fails: getPropertyDecoratorNames and
\* getClassComputed read valueDeclaration.kind of every property of a class
\* type, which is a TypeError for a symbol without a value declaration
analysisThrows(defaultExportType) ==
  /\ isClassType(defaultExportType)
  /\ \E i \in 1..Len(getProperties(defaultExportType)) : ~IsSome(valueDeclaration(getProperties(defaultExportType)[i]))

\* the object analyzeDefaultExportExpr returns for the type of the node
componentInfoOf(defaultExportType) == [componentInfo |-> [props |-> getProps(defaultExportType), data |-> getData(defaultExportType), computed |-> getComputed(defaultExportType), methods |-> getMethods(defaultExportType)]]

\* the type the checker gives at the node is carried by the node
analyzeDefaultExportExpr(defaultExportNode) == componentInfoOf(defaultExportNode.type)

\* --------------------------------------------- component info (source file)

\* a node the default export can be: its syntax kind, the type the checker
\* gives at it, and the argument nodes of a call expression
ExportNode(kind, type, arguments) == [kind |-> kind, type |-> type, arguments |-> arguments]

\* a top-level statement: its syntax kind; the expression of an export
\* assignment; the class type of a class declaration
Statement(kind, expression, type) == [kind |-> kind, expression |-> expression, type |-> type]

getNodeFromExportNode(exportExpr) ==
  CASE exportExpr.kind = "CallExpression" -> IF exportExpr.arguments = <<>> THEN None ELSE Some(exportExpr.arguments[1])
    [] exportExpr.kind = "ObjectLiteralExpression" -> Some(exportExpr)
    [] exportExpr.kind = "ClassDeclaration" -> Some(exportExpr)
    [] OTHER -> None

\* a variant that takes the last export statement
getDefaultExportNode_Last(sourceFile) ==
  LET exportStmts == Filter(sourceFile, LAMBDA st : st.kind = "ExportAssignment" \/ st.kind = "ClassDeclaration")
      last == exportStmts[Len(exportStmts)]
  IN  IF Len(exportStmts) = 0 THEN None
      ELSE getNodeFromExportNode(IF last.kind = "ExportAssignment" THEN last.expression ELSE ExportNode("ClassDeclaration", last.type, <<>>))

\* a source file is the sequence of its top-level statements
getDefaultExportNode(sourceFile) ==
  LET exportStmts == Filter(sourceFile, LAMBDA st : st.kind = "ExportAssignment" \/ st.kind = "ClassDeclaration")
  IN  IF Len(exportStmts) = 0 THEN None
      ELSE getNodeFromExportNode(IF exportStmts[1].kind = "ExportAssignment" THEN exportStmts[1].expression ELSE ExportNode("ClassDeclaration", exportStmts[1].type, <<>>))

\* a child component as getChildComponents reports it
InternalChildComponent(name, defaultExportNode) == [name |-> name, defaultExportNode |-> defaultExportNode]

\* whether the analysis of one of the child components fails
childAnalysisThrows(internalChildComponents) == \E i \in 1..Len(internalChildComponents) : IsSome(internalChildComponents[i].defaultExportNode) /\ analysisThrows(Get(internalChildComponents[i].defaultExportNode).type)

\* the names under the components option of a type
componentNames(type) ==
  LET option == IF isClassType(type) THEN (IF IsSome(getComponentDecoratorArgumentType(type)) THEN getPropertyOfType(Get(getComponentDecoratorArgumentType(type)), "components") ELSE None) ELSE getPropertyOfType(type, "components")
  IN  IF IsSome(option) THEN [i \in 1..Len(Get(option).properties) |-> Get(option).properties[i].name] ELSE <<>>

\* a variant that goes on to the child components of each child
childComponentsOf_Nested(internalChildComponents) == [i \in 1..Len(internalChildComponents) |-> [name |-> internalChildComponents[i].name, info |-> IF IsSome(internalChildComponents[i].defaultExportNode) THEN Some([componentInfo |-> [k \in {"props", "data", "computed", "methods", "childComponents"} |-> IF k = "childComponents" THEN componentNames(Get(internalChildComponents[i].defaultExportNode).type) ELSE analyzeDefaultExportExpr(Get(internalChildComponents[i].defaultExportNode)).componentInfo[k]]]) ELSE None]]

\* the child components of the info, with each child's own analysis
childComponentsOf(internalChildComponents) == [i \in 1..Len(internalChildComponents) |-> [name |-> internalChildComponents[i].name, info |-> IF IsSome(internalChildComponents[i].defaultExportNode) THEN Some(analyzeDefaultExportExpr(Get(internalChildComponents[i].defaultExportNode))) ELSE None]]

\* getComponentInfo from the default export node on; a field that is left out
\* of an object is None here, as an undefined one is
componentInfoFrom(defaultExportNode, cfg, internalChildComponents) ==
  IF ~IsSome(defaultExportNode) THEN Return(None)
  ELSE IF analysisThrows(Get(defaultExportNode).type) THEN Throw("TypeError")
  ELSE IF ~IsSome(cfg) THEN Throw("TypeError")
  ELSE IF IsSome(internalChildComponents) /\ childAnalysisThrows(Get(internalChildComponents)) THEN Throw("TypeError")
  ELSE Return(Some([componentInfo |-> analyzeDefaultExportExpr(Get(defaultExportNode)).componentInfo, childComponents |-> IF IsSome(internalChildComponents) THEN Some(childComponentsOf(Get(internalChildComponents))) ELSE None]))

\* getComponentInfo, given whether the service has a program, the program's
\* source file of the document and the answer of getChildComponents
getComponentInfo(program, sourceFile, cfg, internalChildComponents) ==
  IF ~program THEN Return(None)
  ELSE IF ~IsSome(sourceFile) THEN Return(None)
  ELSE componentInfoFrom(getDefaultExportNode(Get(sourceFile)), cfg, internalChildComponents)

\* whether getJavascriptMode was given an info service for the instance
vueInfoService == [m \in ModeIds |-> m = 1]

\* what updateFileInfo does with the info: the update of the info service is
\* the query updateInfo
updateWith(info) ==
  IF info.status # "ok" THEN [q |-> <<Q("getProgram")>>, r |-> info]
  ELSE IF IsSome(info.value) THEN [q |-> <<Q("getProgram"), QA("updateInfo", Get(info.value))>>, r |-> Return(None)]
  ELSE [q |-> <<Q("getProgram")>>, r |-> Return(None)]

\* updateFileInfo, given the program's answers
updateFileInfoRun(m, doc, program, sourceFile, internalChildComponents) ==
  IF ~vueInfoService[m] THEN [q |-> <<>>, r |-> Return(None)]
  ELSE updateWith(getComponentInfo(program, sourceFile, config[m], internalChildComponents))

ObserveRun(c, run) == Observe(c, run.q, run.r)

updateFileInfo(m, uri, program, sourceFile, internalChildComponents) ==
  /\ ObserveRun([op |-> "updateFileInfo", m |-> m, uri |-> uri, program |-> program, sourceFile |-> sourceFile, internalChildComponents |-> internalChildComponents], updateFileInfoRun(m, docs[uri], program, sourceFile, internalChildComponents))
  /\ UNCHANGED <<docs, modeVars, lastRefactor>>

\* ------------------------------------------------------ inputs of the handlers

UriA == "file:///a.vue"
UriB == "file:///b.vue"

WholeScript(text) == <<Region(0, Len(text))>>

\* the documents a session starts with
DocA1 == Document(UriA, 1, <<"<", "a", "\n", ":">>, WholeScript(<<"<", "a", "\n", ":">>))
DocB1 == Document(UriB, 1, <<"b", "*">>, WholeScript(<<"b", "*">>))

\* what the editor may change a document into
SessionEdits ==
  {[uri |-> UriA, text |-> <<"a", "\n", "*", "a">>, regions |-> <<>>]}

EntryBridge == CompletionEntry(<<"__vueEditorBridge">>, "var", <<>>, None, None, FALSE)
EntryFoo == CompletionEntry(<<"foo">>, "function", <<>>, None, None, TRUE)
EntryVue == CompletionEntry(<<"Comp", ".vue">>, "script", <<>>, None, None, FALSE)
EntryImg == CompletionEntry(<<"img">>, "script", <<".png">>, None, None, FALSE)
EntryProp == CompletionEntry(<<"x">>, "property", <<>>, Some(<<"[", "x", "]">>),
                             Some(TextSpan(0, 1)), FALSE)

\* an item as doComplete hands it out for an entry at offset 0
ItemOf(uri, entry) ==
  completionItemOf(docs[uri], getSingleTypeDocument(docs[uri]), Position(0, 0), 0, entry)

ImportAction ==
  [description |-> "Import foo",
   changes |-> <<[fileName |-> "/a.vue",
                  textChanges |-> <<[span |-> TextSpan(0, 0), newText |-> "import"]>>]>>]
RenameAction ==
  [description |-> "",
   changes |-> <<[fileName |-> "/a.vue",
                  textChanges |-> <<[span |-> TextSpan(1, 1), newText |-> "b"]>>]>>]

EntryDetails(codeActions) ==
  [displayParts |-> <<<<"function ">>, <<"foo">>>>, documentation |-> <<<<"docs">>>>,
   codeActions |-> codeActions]

Diag(start, category, code, unnecessary) ==
  [start |-> start, length |-> 1, category |-> category, code |-> code,
   messageText |-> "message", reportsUnnecessary |-> unnecessary]

ContextDiag(code) == [code |-> code, message |-> "message"]

ChangesA == <<[fileName |-> "/a.vue",
               textChanges |-> <<[span |-> TextSpan(0, 1), newText |-> "x"]>>]>>
ChangesAA == <<[fileName |-> "/a.vue",
                textChanges |-> <<[span |-> TextSpan(0, 1), newText |-> "x"]>>],
               [fileName |-> "/a.vue",
                textChanges |-> <<[span |-> TextSpan(1, 1), newText |-> "y"]>>]>>
ChangesAC == <<[fileName |-> "/a.vue",
                textChanges |-> <<[span |-> TextSpan(0, 1), newText |-> "x"]>>],
               [fileName |-> "/c.ts",
                textChanges |-> <<[span |-> TextSpan(2, 1), newText |-> "z"]>>]>>

CodeFix(description, changes, fixId, fixAllDescription) ==
  [description |-> description, changes |-> changes, fixId |-> fixId,
   fixAllDescription |-> fixAllDescription]

\* the fixes the service has for each error code it is asked about
FixesFor ==
  [c \in {2304, 6133, 7006} |->
     IF c = 2304 THEN <<CodeFix("Import x", ChangesA, Some("fixMissingImport"),
                                Some("Add all missing imports"))>>
     ELSE IF c = 6133 THEN <<>>
     ELSE <<CodeFix("Infer type", ChangesAC, None, None)>>]

Refactoring(name, inlineable, actions) ==
  [name |-> name, description |-> name, inlineable |-> inlineable, actions |-> actions]

RefactorExtract ==
  Refactoring("Extract Symbol", FALSE,
              <<[name |-> "function_scope_0", description |-> "Extract to function"],
                [name |-> "constant_scope_0", description |-> "Extract to constant"]>>)
RefactorMove == Refactoring("Move to a new file", TRUE, <<>>)

\* a deferred request as getCodeActions builds it for a document
RequestOf(uri, kind, arguments) ==
  CodeActionReq(kind, getFilePath(uri), [pos |-> 0, end |-> 1],
                getFormatCodeSettings(ConfigA), arguments)

RefactorRequests(uri) ==
  {RequestOf(uri, "RefactorAction",
             [refactorName |-> "Extract Symbol", actionName |-> "function_scope_0",
              description |-> "Extract to function"])}
OtherRequests(uri) ==
  {RequestOf(uri, "CombinedCodeFix", [fixId |-> "fixMissingImport"]),
   RequestOf(uri, "OrganizeImports", <<>>)}

\* the answers of the service to a deferred request of a kind
EditAnswers(kind) ==
  IF kind = "RefactorAction"
  THEN {None, Some([edits |-> ChangesAA])}
  ELSE IF kind = "CombinedCodeFix"
  THEN {None, Some([changes |-> ChangesAC])}
  ELSE {None, Some(ChangesAA)}

FormatEdit(start, length) == [span |-> TextSpan(start, length), newText |-> " "]

\* the inputs of a session: few of each, the state carries the variety
SessionInputs ==
  [uris |-> Uris,
   configs |-> Configs,
   edits |-> SessionEdits,
   positions |-> {Position(0, 1), Position(1, 0)},
   cursors |-> {Position(0, 1)},
   ranges |-> {Range(Position(0, 0), Position(1, 1))},
   completions |-> {None, Some(<<EntryBridge, EntryFoo, EntryVue, EntryImg, EntryProp>>)},
   entries |-> {EntryFoo, EntryVue},
   details |-> {None, Some(EntryDetails(None)),
                Some(EntryDetails(Some(<<ImportAction, RenameAction>>)))},
   diagnostics |-> {[semantic |-> <<>>, suggestion |-> <<>>],
                    [semantic |-> <<Diag(0, "Error", 2304, FALSE)>>,
                     suggestion |-> <<Diag(9, "Suggestion", 6133, TRUE)>>]},
   infos |-> {None, Some([displayParts |-> <<<<"const x">>>>,
                          documentation |-> <<<<"docs">>>>, textSpan |-> TextSpan(1, 1)])},
   signatures |-> {None,
                   Some([selectedItemIndex |-> 0, argumentIndex |-> 1,
                         items |-> <<[prefixDisplayParts |-> <<<<"f(">>>>,
                                      separatorDisplayParts |-> <<<<", ">>>>,
                                      suffixDisplayParts |-> <<<<")">>>>,
                                      parameters |->
                                        <<[displayParts |-> <<<<"a">>>>,
                                           documentation |-> <<>>],
                                          [displayParts |-> <<<<"b">>>>,
                                           documentation |-> <<>>]>>]>>])},
   occurrences |-> {None, Some(<<[textSpan |-> TextSpan(0, 1), isWriteAccess |-> TRUE],
                                 [textSpan |-> TextSpan(3, 1), isWriteAccess |-> FALSE]>>)},
   locations |-> {None, Some(<<[fileName |-> "/a.vue", textSpan |-> TextSpan(1, 1)],
                               [fileName |-> "/c.ts", textSpan |-> TextSpan(2, 1)]>>)},
   forests |-> {None, Some(<<NavItem("<global>", "script", 0, 0),
                             NavItem("A", "class", 1, 1),
                             NavItem("A", "class", 1, 0)>>)},
   onlys |-> {None, Some({}), Some({"quickfix"}), Some({"source"})},
   contextDiagnostics |-> {<<ContextDiag(Some(2304)), ContextDiag(Some(7006))>>,
                           <<ContextDiag(Some(7006)), ContextDiag(None)>>},
   refactorings |-> {<<RefactorExtract, RefactorMove>>},
   requestKinds |-> {"RefactorAction", "CombinedCodeFix", "OrganizeImports"},
   formatEdits |-> {None, Some(<<FormatEdit(0, 1), FormatEdit(2, 2), FormatEdit(3, 1)>>)},
   prettierEdits |-> {<<[range |-> Range(Position(0, 0), Position(0, 1)),
                         newText |-> "formatted"]>>}]

\* ------------------------------------------------------------ specification

InitDocs(a, b) ==
  /\ docs = [u \in Uris |-> IF u = UriA THEN a ELSE b]
  /\ config = [m \in ModeIds |-> None]
  /\ supportedCodeFixCodes = [m \in ModeIds |-> None]
  /\ jsDocuments = [m \in ModeIds |-> EmptyCache]
  /\ firstScriptRegion = [m \in ModeIds |-> EmptyCache]
  /\ call = [op |-> "getJavascriptMode", m |-> 0]
  /\ queries = <<>>
  /\ ret = Return(None)
  /\ lastRefactor = None

\* the state after getJavascriptMode has built the mode instances
Init == InitDocs(DocA1, DocB1)

\* one step: a handler of a mode instance of M is called with inputs from P, or
\* the editor changes a document
NextOf(M, P) ==
  \/ \E m \in M, c \in P.configs : configure(m, c)
  \/ \E m \in M, u \in P.uris : onDocumentRemoved(m, u)
  \/ \E m \in M, u \in P.uris : onDocumentChanged(m, u)
  \/ \E m \in M : dispose(m)
  \/ \E e \in P.edits : edit(e.uri, e.text, e.regions)
  \/ \E m \in M, u \in P.uris, d \in P.diagnostics :
       doValidation(m, u, <<>>, d.semantic, d.suggestion)
  \/ \E m \in M, u \in P.uris, pos \in P.positions, c \in P.completions :
       doComplete(m, u, pos, c)
  \/ \E m \in M, u \in P.uris, e \in P.entries, d \in P.details :
       doResolve(m, u, ItemOf(u, e), d)
  \/ \E m \in M, u \in P.uris, pos \in P.cursors, i \in P.infos :
       doHover(m, u, pos, i)
  \/ \E m \in M, u \in P.uris, pos \in P.cursors, h \in P.signatures :
       doSignatureHelp(m, u, pos, h)
  \/ \E m \in M, u \in P.uris, pos \in P.cursors, o \in P.occurrences :
       findDocumentHighlight(m, u, pos, o)
  \/ \E m \in M, u \in P.uris, f \in P.forests : findDocumentSymbols(m, u, f)
  \/ \E m \in M, u \in P.uris, pos \in P.cursors, l \in P.locations :
       findDefinition(m, u, pos, l)
  \/ \E m \in M, u \in P.uris, pos \in P.cursors, l \in P.locations :
       findReferences(m, u, pos, l)
  \/ \E m \in M, u \in P.uris, r \in P.ranges, o \in P.onlys,
        ds \in P.contextDiagnostics, rs \in P.refactorings :
       getCodeActions(m, u, r, [only |-> o, diagnostics |-> ds], FixesFor, rs)
  \/ \E m \in M, u \in P.uris :
       \E req \in {r \in RefactorRequests(u) \cup OtherRequests(u) :
                     r.kind \in P.requestKinds} :
         \E answer \in EditAnswers(req.kind) : getCodeActionEdits(m, u, req, answer)
  \/ \E m \in M, u \in P.uris, r \in P.ranges, e \in P.formatEdits,
        pe \in P.prettierEdits :
       format(m, u, r, e, pe)

\* the program has no source file for the document, or one that declares an
\* empty class
SessionSourceFiles ==
  {None, Some(<<Statement("ClassDeclaration", ExportNode("ObjectLiteralExpression", ObjectType(<<>>), <<>>), ClassType(<<>>, None))>>)}

\* a handler is called, the file info is refreshed, or a cache timer fires
Next ==
  \/ NextOf({1}, SessionInputs)
  \/ \E u \in Uris, f \in SessionSourceFiles : updateFileInfo(1, u, TRUE, f, None)
  \/ \E u \in Uris : cacheExpire(1, u)

Spec == Init /\ [][Next]_vars

\* ------------------------------------------- two mode instances, few inputs

\* the inputs of a run with two mode instances: one of each
ModesInputs ==
  [uris |-> {UriA},
   configs |-> {ConfigB},
   edits |-> SessionEdits,
   positions |-> {Position(1, 0)},
   cursors |-> {Position(0, 1)},
   ranges |-> {Range(Position(0, 0), Position(1, 1))},
   completions |-> {None},
   entries |-> {EntryFoo},
   details |-> {None},
   diagnostics |-> {[semantic |-> <<>>, suggestion |-> <<>>]},
   infos |-> {None},
   signatures |-> {None},
   occurrences |-> {None},
   locations |-> {None},
   forests |-> {None},
   onlys |-> {None},
   contextDiagnostics |-> {<<ContextDiag(Some(2304)), ContextDiag(Some(7006))>>},
   refactorings |-> {<<RefactorMove>>},
   requestKinds |-> {"OrganizeImports"},
   formatEdits |-> {None},
   prettierEdits |-> {<<>>}]

NextModes == NextOf(ModeIds, ModesInputs)

SpecModes == Init /\ [][NextModes]_vars

\* --------------------------------------------------- every short document text

Alphabet == {"a", "<", "*", ":", "\n"}

\* the texts of at most n characters
Texts(n) == UNION {[1..k -> Alphabet] : k \in 0..n}

\* the script regions tried for a text: all of it, or all but its first character
RegionsOf(text) ==
  {WholeScript(text)} \cup (IF Len(text) >= 1 THEN {<<Region(1, Len(text))>>} ELSE {})

\* line l of a text, without its line break: the characters after l line breaks
lineLength(text, l) ==
  Cardinality({i \in 1..Len(text) :
                 /\ text[i] # "\n"
                 /\ Cardinality({j \in 1..(i - 1) : text[j] = "\n"}) = l})
lineCount(text) == 1 + Cardinality({i \in 1..Len(text) : text[i] = "\n"})

\* the positions of a text: a line of it, and a character of that line or its end
ValidPositions(text) ==
  {p \in [line : 0..(lineCount(text) - 1), character : 0..Len(text)] :
     p.character <= lineLength(text, p.line)}

Before(p, q) == p.line < q.line \/ (p.line = q.line /\ p.character <= q.character)

\* the valid ranges of a document that lie inside its first script region
ValidRanges(doc) ==
  LET region == doc.regions[1]
      inside == {p \in ValidPositions(doc.text) :
                   /\ region.start <= offsetAt(doc.text, p)
                   /\ offsetAt(doc.text, p) <= region.end}
  IN  {Range(r[1], r[2]) : r \in {r \in inside \X inside : Before(r[1], r[2])}}

\* the span of the script document that a range covers (format, lines 561-562)
spanOfRange(scriptText, range) ==
  TextSpan(offsetAt(scriptText, range.start),
           offsetAt(scriptText, range.end) - offsetAt(scriptText, range.start))

InitText ==
  \E t \in Texts(MaxTextLen) : \E r \in RegionsOf(t) :
    InitDocs(Document(UriA, 1, t, r), DocB1)

\* completion at any position, and formatting of any valid range for which the
\* service answers nothing or one edit that replaces the whole range
NextText ==
  \/ configure(1, ConfigA)
  \/ \E l \in 0..MaxTextLen, c \in 0..MaxTextLen :
       \E cs \in {None, Some(<<EntryFoo>>)} : doComplete(1, UriA, Position(l, c), cs)
  \/ \E r \in ValidRanges(docs[UriA]) :
       \E e \in {None,
                 Some(<<[span |-> spanOfRange(getSingleTypeDocument(docs[UriA]), r),
                         newText |-> "x"]>>)} :
         format(1, UriA, r, e, <<>>)

SpecText == InitText /\ [][NextText]_vars

\* --------------------------------------------------- many service answers

\* the outline items a navigation bar is built from
NavPool ==
  {[text |-> "<global>", kind |-> "script", start |-> 0],
   [text |-> "A", kind |-> "class", start |-> 0],
   [text |-> "A", kind |-> "class", start |-> 1],
   [text |-> "A", kind |-> "var", start |-> 0]}

\* the forests of at most n items: an item's parent comes before it
Forests(n) ==
  UNION {{[k \in 1..len |-> NavItem(items[k].text, items[k].kind, items[k].start,
                                    parents[k])] :
            items \in [1..len -> NavPool],
            parents \in {f \in [1..len -> 0..(len - 1)] : \A k \in 1..len : f[k] < k}} :
         len \in 0..n}

ContextCodes == {Some(2304), Some(7006), None}

\* the diagnostics of a code action context: at most two, any codes
ContextDiagnostics ==
  {<<>>} \cup {<<ContextDiag(c)>> : c \in ContextCodes}
  \cup {<<ContextDiag(c), ContextDiag(d)>> : c \in ContextCodes, d \in ContextCodes}

Onlys == {None, Some({}), Some({"quickfix"}), Some({"refactor.extract"}),
          Some({"source"}), Some({"source.organizeImports"})}

NextAnswers ==
  \/ configure(1, ConfigA)
  \/ \E f \in Forests(MaxNavItems) : findDocumentSymbols(1, UriA, Some(f))
  \/ \E o \in Onlys, ds \in ContextDiagnostics,
        rs \in {<<>>, <<RefactorExtract, RefactorMove>>} :
       getCodeActions(1, UriA, Range(Position(0, 0), Position(1, 1)),
                      [only |-> o, diagnostics |-> ds], FixesFor, rs)

SpecAnswers == Init /\ [][NextAnswers]_vars

\* ------------------------------------------- code actions and format (inputs)

\* an inlineable refactor that has a sub-action of its own
RefactorConvert ==
  Refactoring("Convert export", TRUE, <<[name |-> "Convert default export", description |-> "Convert default export to named export"]>>)
\* a refactor that is not inlineable and has no sub-action
RefactorNone == Refactoring("Generate accessors", FALSE, <<>>)

RefactorPool == {RefactorExtract, RefactorMove, RefactorConvert, RefactorNone}

\* the answers of getApplicableRefactors: at most n refactors
RefactorLists(n) == UNION {[1..k -> RefactorPool] : k \in 0..n}

FileChange(fileName, textChanges) == [fileName |-> fileName, textChanges |-> textChanges]

\* changes of a.vue with one, two and no text change, and one of c.ts
ChangeOne == FileChange("/a.vue", <<[span |-> TextSpan(0, 1), newText |-> "x"]>>)
ChangeTwo == FileChange("/a.vue", <<[span |-> TextSpan(1, 1), newText |-> "y"], [span |-> TextSpan(3, 0), newText |-> "w"]>>)
ChangeNone == FileChange("/a.vue", <<>>)
ChangeOther == FileChange("/c.ts", <<[span |-> TextSpan(2, 1), newText |-> "z"]>>)

ChangePool == {ChangeOne, ChangeTwo, ChangeNone, ChangeOther}

\* the changes of one code fix: at most n entries
ChangeLists(n) == UNION {[1..k -> ChangePool] : k \in 0..n}

\* the service has one fix, with these changes, for code 2304
FixesWith(changes) ==
  [c \in {2304, 6133, 7006} |-> IF c = 2304 THEN <<CodeFix("Import x", changes, None, None)>> ELSE <<>>]

ActionKinds ==
  {"quickfix", "refactor", "refactor.extract", "refactor.inline", "refactor.rewrite", "source", "source.organizeImports", "source.fixAll"}

\* context.only: absent, empty, each kind alone, and two pairs
ActionOnlys ==
  {None, Some({})} \cup {Some({k}) : k \in ActionKinds}
  \cup {Some({"quickfix", "refactor.inline"}), Some({"source.organizeImports", "source"})}

\* the spans of formatting edits in the text of a.vue: before, inside, up to
\* the end of, and past the end of the range from offset 1 to offset 3
EditSpans == {TextSpan(0, 1), TextSpan(1, 1), TextSpan(1, 2), TextSpan(2, 2)}

\* the answers of getFormattingEditsForRange: at most n edits
EditLists(n) == UNION {[1..k -> {FormatEdit(sp.start, sp.length) : sp \in EditSpans}] : k \in 0..n}

FormatRanges == {Range(Position(0, 0), Position(1, 1)), Range(Position(0, 1), Position(1, 0))}

\* the code actions of a.vue under every filter, under every answer of the
\* refactor query and under every change list of a fix; the formatting of a
\* range of a.vue under every answer of the service, and of a.vue and b.vue
NextActions ==
  \/ \E c \in Configs : configure(1, c)
  \/ \E o \in ActionOnlys, ds \in {<<>>, <<ContextDiag(Some(2304))>>}, rs \in {<<>>, <<RefactorExtract, RefactorMove>>} :
       getCodeActions(1, UriA, Range(Position(0, 0), Position(1, 1)), [only |-> o, diagnostics |-> ds], FixesFor, rs)
  \/ \E rs \in RefactorLists(MaxRefactors) :
       getCodeActions(1, UriA, Range(Position(0, 0), Position(1, 1)), [only |-> None, diagnostics |-> <<>>], FixesFor, rs)
  \/ \E changes \in ChangeLists(MaxChanges) :
       getCodeActions(1, UriA, Range(Position(0, 0), Position(1, 1)), [only |-> None, diagnostics |-> <<ContextDiag(Some(2304))>>], FixesWith(changes), <<>>)
  \/ \E es \in EditLists(MaxEdits) : format(1, UriA, Range(Position(0, 1), Position(1, 0)), Some(es), <<>>)
  \/ \E u \in Uris, r \in FormatRanges, e \in {None, Some(<<FormatEdit(0, 1), FormatEdit(1, 1)>>)} : format(1, u, r, e, <<>>)

SpecActions == Init /\ [][NextActions]_vars

\* ------------------------------------------------ component info (inputs)

PropMember == Declaration(<<"p">>, "PropertyDeclaration", Some(<<Decorator("Prop", TRUE, <<>>)>>), <<<<"P">>>>, <<"p", ";">>)
PropSyncMember == Declaration(<<"s">>, "PropertyDeclaration", Some(<<Decorator("PropSync", TRUE, <<>>)>>), <<>>, <<"s", ";">>)
DataMember == Declaration(<<"d">>, "PropertyDeclaration", None, <<<<"D">>>>, <<"d", ";">>)
GetMember == Declaration(<<"c">>, "GetAccessor", None, <<<<"G">>>>, <<"g", "{", "\n", " ", "}">>)
SetMember == Declaration(<<"c">>, "SetAccessor", None, <<<<"S">>>>, <<"s", "{", "}">>)
MethodMember == Declaration(<<"m">>, "MethodDeclaration", None, <<>>, <<"m", "{", "}">>)
WatchMember == Declaration(<<"w">>, "MethodDeclaration", Some(<<Decorator("Watch", TRUE, <<>>)>>), <<>>, <<"w", "{", "}">>)

MemberPool == {PropMember, PropSyncMember, DataMember, GetMember, SetMember, MethodMember, WatchMember}

\* the lists of at most n declarations of a pool
MemberLists(pool, n) == UNION {[1..k -> pool] : k \in 0..n}

\* the members of the classes that carry a Component decorator
DecoratedPool == {PropMember, DataMember, GetMember, MethodMember}

\* a property of an object literal
PropertySymbol(name) == Symbol(name, <<Declaration(name, "PropertyAssignment", None, <<>>, name \o <<":", "1">>)>>)

ObjectLiteral == Some(Expression("ObjectLiteralExpression", <<>>))

\* { props: { x: 1, y: 1 }, data() { return { d: 1 } }, computed: { c: 1 },
\*   methods: { m: 1 } }
ObjectFull ==
  ObjectType(<<OptionSymbol("props", TRUE, ObjectLiteral, <<PropertySymbol(<<"x">>), PropertySymbol(<<"y">>)>>, <<>>),
               OptionSymbol("data", TRUE, Some(Expression("Block", <<>>)), <<>>, <<<<PropertySymbol(<<"d">>)>>>>),
               OptionSymbol("computed", TRUE, ObjectLiteral, <<PropertySymbol(<<"c">>)>>, <<>>),
               OptionSymbol("methods", TRUE, ObjectLiteral, <<PropertySymbol(<<"m">>)>>, <<>>)>>)

\* { props: ['a', 1], computed: {}, methods: {} }
ObjectArrayProps ==
  ObjectType(<<OptionSymbol("props", TRUE, Some(Expression("ArrayLiteralExpression", <<Element("StringLiteral", <<"a">>), Element("NumericLiteral", <<"1">>)>>)), <<>>, <<>>),
               OptionSymbol("computed", TRUE, ObjectLiteral, <<>>, <<>>),
               OptionSymbol("methods", TRUE, ObjectLiteral, <<>>, <<>>)>>)

\* { props: [], data: 1, computed: c, methods } with methods undeclared
ObjectEmpty ==
  ObjectType(<<OptionSymbol("props", TRUE, Some(Expression("ArrayLiteralExpression", <<>>)), <<>>, <<>>),
               OptionSymbol("data", TRUE, Some(Expression("NumericLiteral", <<>>)), <<>>, <<>>),
               OptionSymbol("computed", TRUE, Some(Expression("Identifier", <<>>)), <<>>, <<>>),
               OptionSymbol("methods", FALSE, None, <<>>, <<>>)>>)

\* {}
ObjectBare == ObjectType(<<>>)

ObjectTypes == {ObjectFull, ObjectArrayProps, ObjectEmpty, ObjectBare}

\* @Component({ ... }) with the full object literal
ComponentWith(type) == Some(<<Decorator("Component", TRUE, <<type>>)>>)

\* no decorator; @Component; @Component(); @Other() @Component([...]);
\* @Component @Component({ ... })
DecoratorLists ==
  {None, Some(<<Decorator("Component", FALSE, <<>>)>>), Some(<<Decorator("Component", TRUE, <<>>)>>),
   Some(<<Decorator("Other", TRUE, <<>>), Decorator("Component", TRUE, <<ObjectArrayProps>>)>>),
   Some(<<Decorator("Component", FALSE, <<>>), Decorator("Component", TRUE, <<ObjectFull>>)>>)}

\* bare classes of up to MaxMembers members; classes of up to MaxMembers
\* members decorated with the full object literal; classes of at most one
\* member under the other decorators
ClassTypes ==
  {ClassType(ms, None) : ms \in MemberLists(MemberPool, MaxMembers)}
  \cup {ClassType(ms, ComponentWith(ObjectFull)) : ms \in MemberLists(DecoratedPool, MaxMembers)}
  \cup {ClassType(ms, ds) : ms \in MemberLists(MemberPool, 1), ds \in DecoratorLists}

ObjectNode(type) == ExportNode("ObjectLiteralExpression", type, <<>>)

ClassStatement(type) == Statement("ClassDeclaration", ObjectNode(ObjectBare), type)
ExportStatement(expression) == Statement("ExportAssignment", expression, ObjectBare)
OtherStatement == Statement("ImportDeclaration", ObjectNode(ObjectBare), ObjectBare)

\* a property the base type declares, and one a mapped type gives it
InheritedDeclared == Symbol(<<"$", "e", "l">>, <<Declaration(<<"$", "e", "l">>, "PropertySignature", None, <<>>, <<"$", "e", "l", ";">>)>>)
InheritedMapped == Symbol(<<"x">>, <<>>)

\* classes of at most one member that inherit properties of a base type
InheritingClassTypes == {InheritingClassType(ms, None, inherited) : ms \in MemberLists(MemberPool, 1), inherited \in {<<InheritedDeclared>>, <<InheritedMapped>>, <<InheritedDeclared, InheritedMapped>>}}

SmallClass == ClassType(<<PropMember>>, None)

\* source files of other shapes: no statement; no export; export default of an
\* object literal, of a call with and without arguments, of an identifier; a
\* class before and after an export assignment
ShapeFiles ==
  {<<>>, <<OtherStatement>>, <<OtherStatement, OtherStatement>>}
  \cup {<<OtherStatement, ExportStatement(ObjectNode(t))>> : t \in ObjectTypes}
  \cup {<<ExportStatement(ExportNode("CallExpression", ObjectBare, <<ObjectNode(t)>>))>> : t \in ObjectTypes}
  \cup {<<ExportStatement(ExportNode("CallExpression", ObjectBare, <<>>))>>,
        <<ExportStatement(ExportNode("Identifier", ObjectFull, <<>>))>>,
        <<ClassStatement(SmallClass), ExportStatement(ObjectNode(ObjectFull))>>,
        <<ExportStatement(ObjectNode(ObjectFull)), OtherStatement, ClassStatement(SmallClass)>>}

\* getChildComponents: no child components; one with and one without a default
\* export node
ChildAnswers ==
  {None, Some(<<InternalChildComponent(<<"k">>, Some(ObjectNode(ObjectFull))), InternalChildComponent(<<"l">>, None)>>)}

\* { components: { ... } } with those names, next to props and methods
ObjectReferring(names) ==
  ObjectType(<<OptionSymbol("props", TRUE, ObjectLiteral, <<PropertySymbol(<<"x">>)>>, <<>>),
               OptionSymbol("methods", TRUE, ObjectLiteral, <<PropertySymbol(<<"m">>)>>, <<>>),
               OptionSymbol("components", TRUE, ObjectLiteral, [i \in 1..Len(names) |-> PropertySymbol(names[i])], <<>>)>>)

\* the components of a program that refer to each other: r is the component
\* of the document; k is an object literal that refers back to r; c is a class
\* that refers to r and to itself; l has no default export; b refers to none
ChildNames == {<<"r">>, <<"k">>, <<"c">>, <<"l">>, <<"b">>}
ChildNode(name) ==
  CASE name = <<"r">> -> Some(ObjectNode(ObjectReferring(<<<<"k">>, <<"c">>>>)))
    [] name = <<"k">> -> Some(ObjectNode(ObjectReferring(<<<<"r">>>>)))
    [] name = <<"c">> -> Some(ExportNode("ClassDeclaration", ClassType(<<DataMember>>, ComponentWith(ObjectReferring(<<<<"r">>, <<"c">>>>))), <<>>))
    [] name = <<"l">> -> None
    [] OTHER -> Some(ObjectNode(ObjectFull))

\* the lists of at most n different names
NameLists(n) == {ns \in UNION {[1..k -> ChildNames] : k \in 0..n} : \A i, j \in 1..Len(ns) : ns[i] = ns[j] => i = j}

\* the document's component refers to those names, as an object literal and
\* as a class
ReferringFiles(names) ==
  {<<ExportStatement(ObjectNode(ObjectReferring(names)))>>,
   <<ClassStatement(ClassType(<<MethodMember>>, ComponentWith(ObjectReferring(names))))>>}

\* the answer of getChildComponents for a component that refers to those names
ChildrenNamed(names) == Some([i \in 1..Len(names) |-> InternalChildComponent(names[i], ChildNode(names[i]))])

\* the component info of source files: classes of every member list, the
\* other shapes under every answer of the program, and components that refer
\* to each other
NextInfo ==
  \/ configure(1, ConfigA)
  \/ \E t \in ClassTypes \cup InheritingClassTypes : updateFileInfo(1, UriA, TRUE, Some(<<ClassStatement(t)>>), None)
  \/ \E m \in ModeIds, program \in BOOLEAN, f \in {None} \cup {Some(s) : s \in ShapeFiles}, c \in ChildAnswers :
       updateFileInfo(m, UriA, program, f, c)
  \/ \E names \in NameLists(MaxChildren) : \E f \in ReferringFiles(names) : updateFileInfo(1, UriA, TRUE, Some(f), ChildrenNamed(names))

SpecInfo == Init /\ [][NextInfo]_vars

\* ------------------------------------------- component info (declaration texts)

DeclAlphabet == {"a", " ", "\n"}

\* the source texts of at most n characters that a declaration can have:
\* getText() starts at the first token of the declaration and ends with its
\* last, so the text neither starts nor ends with white space
DeclTexts(n) == {t \in UNION {[1..k -> DeclAlphabet] : k \in 1..n} : t[1] \notin WhiteSpace /\ t[Len(t)] \notin WhiteSpace}

\* a property declaration of a class with that comment and that source text
TextMember(comment, text) == Declaration(<<"d">>, "PropertyDeclaration", None, comment, text)

\* the component info of a class with one member, for every source text of
\* the member, with and without a documentation comment
NextDoc ==
  \/ configure(1, ConfigA)
  \/ \E text \in DeclTexts(MaxDeclLen), comment \in {<<>>, <<<<"D">>>>} :
       updateFileInfo(1, UriA, TRUE, Some(<<ClassStatement(ClassType(<<TextMember(comment, text)>>, None))>>), None)

SpecDoc == Init /\ [][NextDoc]_vars

\* =================================================================== claims

\* the last call returned v, and did not fail
Returned(v) == ret.status = "ok" /\ ret.value = v

\* the operations a mode exposes on a document
ExposedOps ==
  {"doValidation", "doComplete", "doResolve", "doHover", "doSignatureHelp",
   "findDocumentHighlight", "findDocumentSymbols", "findDefinition", "findReferences",
   "getCodeActions", "getCodeActionEdits", "format"}

\* the neutral empty result of an operation
NeutralResult(c) ==
  CASE c.op = "doComplete" -> EmptyCompletionList
    [] c.op = "doResolve" -> c.item
    [] c.op = "doHover" -> NoHover
    [] c.op = "doSignatureHelp" -> NULL_SIGNATURE
    [] c.op = "getCodeActionEdits" -> createApplyCodeActionCommand("", EmptyMapping)
    [] OTHER -> <<>>

\* C1 (as stated; the code violates it): every exposed operation, getCodeActions,
\* getCodeActionEdits and format included, called on a document that is not a root
\* file of the service, sends no query and returns its neutral empty result.
\* The mode is configured, so that no failure comes from a missing configuration.
RootFileCheckedByEveryOperation ==
  (/\ call.op \in ExposedOps
   /\ ~languageServiceIncludesFile(call.uri)
   /\ IsSome(config[call.m]))
  => (queries = <<>> /\ Returned(NeutralResult(call)))

\* the cursor offset of a completion call, in the host document
cursorOffset == offsetAt(docs[call.uri].text, call.position)

\* C2: when the character just before the cursor offset is '<', '*' or ':',
\* doComplete returns {isIncomplete: false, items: []} and sends no query; at
\* offset 0 there is no such character and the completions query is sent.
CompletionSuppressedAfterTrigger ==
  call.op = "doComplete" =>
    /\ (cursorOffset >= 1 /\ docs[call.uri].text[cursorOffset] \in {"<", "*", ":"})
       => (Returned(EmptyCompletionList) /\ queries = <<>>)
    /\ (cursorOffset = 0 /\ languageServiceIncludesFile(call.uri))
       => queries = <<Q("getCompletionsAtPosition")>>

\* a completion after "*", the second character of a root document, was suppressed
CompletionSuppressedWitness ==
  /\ call.op = "doComplete"
  /\ languageServiceIncludesFile(call.uri)
  /\ cursorOffset = 2
  /\ docs[call.uri].text[2] = "*"
  /\ docs[call.uri].text[1] \notin NON_SCRIPT_TRIGGERS
  /\ Returned(EmptyCompletionList)
  /\ queries = <<>>

\* the numeric codes of a context's diagnostics that the set of the mode holds
supportedCodesOf(c) ==
  {k \in 1..Len(c.context.diagnostics) :
     /\ IsSome(c.context.diagnostics[k].code)
     /\ Get(c.context.diagnostics[k].code) \in Get(supportedCodeFixCodes[c.m])}

\* C3: getCodeActions never sends a code outside the supported set to the code-fix
\* query, and when no context diagnostic has a supported code the result holds no
\* quick-fix action.
UnsupportedCodesGetNoQuickFix ==
  call.op = "getCodeActions" =>
    /\ \A k \in 1..Len(queries) :
         queries[k].name = "getCodeFixesAtPosition" =>
           \A j \in 1..Len(queries[k].arg) :
             queries[k].arg[j] \in Get(supportedCodeFixCodes[call.m])
    /\ (supportedCodesOf(call) = {} /\ ret.status = "ok")
       => \A k \in 1..Len(ret.value) : ret.value[k].kind # "quickfix"

\* a call with the unsupported code 7006 before the supported code 2304: only 2304
\* was sent, and the fixes of 2304 came back
UnsupportedCodesWitness ==
  /\ call.op = "getCodeActions"
  /\ Len(call.context.diagnostics) = 2
  /\ call.context.diagnostics[1].code = Some(7006)
  /\ call.context.diagnostics[2].code = Some(2304)
  /\ queries[Len(queries)] = QA("getCodeFixesAtPosition", <<2304>>)
  /\ ret.status = "ok"
  /\ \E k \in 1..Len(ret.value) : ret.value[k].kind = "quickfix"

\* whether a call asked TypeScript for its list of supported code fixes
asksSupportedCodeFixes(q) ==
  \E k \in 1..Len(q) : q[k].name = "getSupportedCodeFixes"

NullAnswerGivesEmptyEdits ==
  (call.op = "getCodeActionEdits" /\ ~IsSome(call.answer))
  => Returned(createApplyCodeActionCommand("", EmptyMapping))

\* the null answer of the service to a combined-fix or organize-imports request
\* made getCodeActionEdits fail
NullAnswerFails ==
  /\ call.op = "getCodeActionEdits"
  /\ call.req.kind \in {"CombinedCodeFix", "OrganizeImports"}
  /\ ~IsSome(call.answer)
  /\ ret.status = "throw"

ResolveAlwaysRemovesToken ==
  (call.op = "doResolve" /\ ret.status = "ok") => ~IsSome(ret.value.data)

\* whether doResolve fills in the item: a root file, details from the service, and
\* an item that is neither a file nor a folder
resolves(c) ==
  /\ languageServiceIncludesFile(c.uri)
  /\ IsSome(c.details)
  /\ c.item.kind \notin {"File", "Folder"}

\* C8 (amended): doResolve removes the token from the item exactly when it fills
\* the item in; for a document that is not a root file, for no details and for a
\* file or folder item it returns the item as it was given, token included.
ResolveRemovesTokenWhenResolved ==
  (call.op = "doResolve" /\ ret.status = "ok")
  => IF resolves(call)
     THEN ~IsSome(ret.value.data) /\ IsSome(ret.value.detail)
     ELSE ret.value = call.item /\ ret.value.data = call.item.data

\* an item with a token was filled in and came back without it
ResolveRemovesTokenWitness ==
  /\ call.op = "doResolve"
  /\ ret.status = "ok"
  /\ resolves(call)
  /\ IsSome(call.item.data)
  /\ ~IsSome(ret.value.data)

\* an item with a token came back with it: the service had no details
ResolveKeepsTokenWitness ==
  /\ call.op = "doResolve"
  /\ ret.status = "ok"
  /\ languageServiceIncludesFile(call.uri)
  /\ ~IsSome(call.details)
  /\ IsSome(ret.value.data)

\* C9 (as stated; the code violates it): right after onDocumentRemoved(d), neither
\* the script document cache nor the first-script-region cache holds d.
RemovedDocumentLeavesNoEntry ==
  call.op = "onDocumentRemoved"
  => /\ ~IsSome(jsDocuments[call.m][call.uri])
     /\ ~IsSome(firstScriptRegion[call.m][call.uri])

\* C10: for a document with one script region, a valid range inside the region,
\* taken to offsets of the script document and back by convertRange, is the range;
\* so a formatting edit that replaces the requested range comes back with that range.
RangeRoundTrip ==
  /\ \A r \in ValidRanges(docs[UriA]) :
       convertRange(getSingleTypeDocument(docs[UriA]),
                    spanOfRange(getSingleTypeDocument(docs[UriA]), r)) = r
  /\ (call.op = "format" /\ ret.status = "ok" /\ IsSome(call.edits)
      /\ call.range \in ValidRanges(docs[call.uri]))
     => \A k \in 1..Len(ret.value) :
          (Get(call.edits)[1].span
             = spanOfRange(getSingleTypeDocument(docs[call.uri]), call.range))
          => ret.value[k].range = call.range

\* a range from the first line into the second was formatted, and the edit that
\* replaced it came back with that range
RangeRoundTripWitness ==
  /\ call.op = "format"
  /\ ret.status = "ok"
  /\ Len(ret.value) = 1
  /\ call.range.start.line = 0
  /\ call.range.start.character = 1
  /\ call.range.end.line = 1
  /\ docs[call.uri].regions[1].start = 1
  /\ ret.value[1].range = call.range
\* C11: a source file with no export assignment and no class declaration at
\* its top level gives no component info, and updateFileInfo then updates
\* nothing; when info is stored, it is the analysis of the node of the first
\* top-level statement that is an export assignment or a class declaration.
DefaultExportIsFirstExportStatement ==
  (call.op = "updateFileInfo" /\ vueInfoService[call.m] /\ call.program /\ IsSome(call.sourceFile)) =>
    LET exportStmts == Filter(Get(call.sourceFile), LAMBDA st : st.kind \in {"ExportAssignment", "ClassDeclaration"})
        first == getNodeFromExportNode(IF exportStmts[1].kind = "ExportAssignment" THEN exportStmts[1].expression ELSE ExportNode("ClassDeclaration", exportStmts[1].type, <<>>))
        updates == Filter(queries, LAMBDA q : q.name = "updateInfo")
    IN  IF exportStmts = <<>> THEN updates = <<>> /\ Returned(None)
        ELSE \A i \in 1..Len(updates) : IsSome(first) /\ updates[i].arg.componentInfo = analyzeDefaultExportExpr(Get(first)).componentInfo

\* a configured instance was given a file of one import statement
NoExportWitness ==
  /\ call.op = "updateFileInfo" /\ call.m = 1 /\ call.program
  /\ call.sourceFile = Some(<<OtherStatement>>)
  /\ IsSome(config[1]) /\ queries = <<Q("getProgram")>> /\ Returned(None)

\* info was stored for a file whose class declaration comes before its export
FirstOfTwoWitness ==
  /\ call.op = "updateFileInfo"
  /\ call.sourceFile = Some(<<ClassStatement(SmallClass), ExportStatement(ObjectNode(ObjectFull))>>)
  /\ \E i \in 1..Len(queries) : queries[i].name = "updateInfo"

\* the component infos the last call stored in the info service
storedInfos == Filter(queries, LAMBDA q : q.name = "updateInfo")

\* C12: for the object-literal shape and for the class shape, each of props,
\* data, computed and methods of the analysis is undefined or a non-empty
\* list, never an empty list, and the analysis does not fail.
CategoriesAreUndefinedOrNonEmpty ==
  call.op = "updateFileInfo" =>
    /\ IsSome(config[call.m]) => ret.status = "ok"
    /\ \A i \in 1..Len(storedInfos) :
         LET info == storedInfos[i].arg.componentInfo
         IN  \A list \in {info.props, info.data, info.computed, info.methods} : ~IsSome(list) \/ Len(Get(list)) > 0

\* the analysis failed for a class that inherits a property without a value
\* declaration, on a configured instance
AnalysisFails ==
  /\ call.op = "updateFileInfo" /\ IsSome(config[call.m])
  /\ call.sourceFile = Some(<<ClassStatement(InheritingClassType(<<>>, None, <<InheritedMapped>>))>>)
  /\ ret = Throw("TypeError")

\* the last call analysed a file whose only statement is a class declaration,
\* and stored the info
storedClassInfo ==
  /\ call.op = "updateFileInfo" /\ storedInfos # <<>> /\ IsSome(call.sourceFile)
  /\ Len(Get(call.sourceFile)) = 1 /\ Get(call.sourceFile)[1].kind = "ClassDeclaration"

\* the class of that file, and the info stored for it
theClass == Get(call.sourceFile)[1].type
theInfo == storedInfos[1].arg.componentInfo

\* the type of the argument of the class's Component decorator, if any
theArgument == getComponentDecoratorArgumentType(theClass)

\* the names of the entries of a category list
namesOf(list) == {OrEmpty(list)[k].name : k \in 1..Len(OrEmpty(list))}

\* the class-derived entries of the stored data list: the list without the
\* entries of the decorator argument at its end
classDataEntries ==
  LET objectData == IF IsSome(theArgument) THEN OrEmpty(getObjectData(Get(theArgument))) ELSE <<>>
  IN  SubSeq(OrEmpty(theInfo.data), 1, Len(OrEmpty(theInfo.data)) - Len(objectData))

\* the member is a property declaration that carries the decorator
carries(member, decoratorName) ==
  /\ member.kind = "PropertyDeclaration" /\ IsSome(member.decorators)
  /\ \E j \in 1..Len(Get(member.decorators)) : Get(member.decorators)[j].name = decoratorName

\* C13: for the class shape, every member whose property declaration
\* carries the decorator Prop is in the props list and is not among the
\* class-derived data entries.
PropMembersArePropsNotData ==
  storedClassInfo =>
    \A i \in 1..Len(theClass.members) :
      carries(theClass.members[i], "Prop") =>
        /\ theClass.members[i].name \in namesOf(theInfo.props)
        /\ theClass.members[i].name \notin namesOf(Some(classDataEntries))

\* info was stored for a class with a Prop member and a plain property
PropMemberWitness ==
  /\ storedClassInfo
  /\ theClass.members = <<DataMember, PropMember>>
  /\ namesOf(theInfo.props) = {PropMember.name}
  /\ namesOf(theInfo.data) = {DataMember.name}

\* the class-derived entries of the stored computed list
classComputedEntries ==
  LET objectComputed == IF IsSome(theArgument) THEN OrEmpty(getObjectComputed(Get(theArgument))) ELSE <<>>
  IN  SubSeq(OrEmpty(theInfo.computed), 1, Len(OrEmpty(theInfo.computed)) - Len(objectComputed))

\* C14: for the class shape, a get accessor and a set accessor of one name
\* give exactly one computed entry of that name, whose documentation is the
\* built documentation of the getter followed by that of the setter,
\* whichever of the two is declared first.
AccessorPairGivesOneEntry ==
  storedClassInfo =>
    \A i, j \in 1..Len(theClass.members) :
      LET getter == theClass.members[i]
          setter == theClass.members[j]
          entries == Filter(classComputedEntries, LAMBDA e : e.name = getter.name)
      IN  (getter.kind = "GetAccessor" /\ setter.kind = "SetAccessor" /\ getter.name = setter.name) =>
            /\ Len(entries) = 1
            /\ entries[1].documentation = Some(buildDocumentation(Symbol(getter.name, <<getter>>)) \o buildDocumentation(Symbol(setter.name, <<setter>>)))

\* info was stored for a class that declares the setter before the getter,
\* and it has no computed entry
SetterFirstGivesNoEntry ==
  /\ storedClassInfo
  /\ theClass.members = <<SetMember, GetMember>>
  /\ ~IsSome(theInfo.computed)

\* info was stored for a class that declares the getter before the setter,
\* and the entry's documentation ends with the getter's text
GetterFirstLeavesSetterOut ==
  /\ storedClassInfo
  /\ theClass.members = <<GetMember, SetMember>> /\ ~IsSome(theArgument)
  /\ Len(Get(theInfo.computed)) = 1
  /\ Get(theInfo.computed)[1].documentation = Some(buildDocumentation(Symbol(GetMember.name, <<GetMember, SetMember>>)))

\* C19: for a class with a recognised Component decorator argument, each of
\* the four category lists is the class-derived entries, in their order,
\* followed by the entries of the decorator argument, in their order.
ClassEntriesComeFirst ==
  (storedClassInfo /\ IsSome(theArgument)) =>
    /\ OrEmpty(theInfo.props) = OrEmpty(getClassProps(theClass)) \o OrEmpty(getObjectProps(Get(theArgument)))
    /\ OrEmpty(theInfo.data) = OrEmpty(getClassData(theClass)) \o OrEmpty(getObjectData(Get(theArgument)))
    /\ OrEmpty(theInfo.computed) = OrEmpty(getClassComputed(theClass)) \o OrEmpty(getObjectComputed(Get(theArgument)))
    /\ OrEmpty(theInfo.methods) = OrEmpty(getClassMethods(theClass)) \o OrEmpty(getObjectMethods(Get(theArgument)))

\* info was stored for a decorated class of two members: its data list has
\* the two class entries, then the entry of the decorator argument
ClassEntriesComeFirstWitness ==
  /\ storedClassInfo
  /\ theClass = ClassType(<<MethodMember, DataMember>>, ComponentWith(ObjectFull))
  /\ [k \in 1..3 |-> Get(theInfo.data)[k].name] = <<MethodMember.name, DataMember.name, <<"d">>>>
  /\ [k \in 1..2 |-> Get(theInfo.props)[k].name] = <<<<"x">>, <<"y">>>>

\* the last call sent the query of that name
asked(name) == \E i \in 1..Len(queries) : queries[i].name = name

\* the actions of that kind that the last call returned
returnedActions(kind) == IF ret.status = "ok" THEN Filter(ret.value, LAMBDA a : a.kind = kind) ELSE <<>>

\* the filter of the last getCodeActions call allows quick fixes, refactors
quickFixAllowed == ~IsSome(call.context.only) \/ "quickfix" \in Get(call.context.only)
refactorAllowed ==
  \/ ~IsSome(call.context.only)
  \/ Get(call.context.only) \cap {"refactor", "refactor.extract", "refactor.inline", "refactor.rewrite", "source"} # {}

\* C15: getCodeActions returns quick-fix actions only when the filter is
\* absent or holds the quick-fix kind, and refactor actions only when the
\* filter is absent or holds refactor, refactor.extract, refactor.inline,
\* refactor.rewrite or source; a provider that the filter rules out does not
\* send its service query.
GatedProvidersAskNothing ==
  call.op = "getCodeActions" =>
    /\ ~quickFixAllowed => (~asked("getCodeFixesAtPosition") /\ returnedActions("quickfix") = <<>>)
    /\ ~refactorAllowed => (~asked("getApplicableRefactors") /\ returnedActions("refactor") = <<>>)

\* with the filter { quickfix } and two applicable refactors, the quick fixes
\* were returned and the refactors were not asked for
GatedProvidersWitness ==
  /\ call.op = "getCodeActions"
  /\ call.context.only = Some({"quickfix"})
  /\ call.refactorings = <<RefactorExtract, RefactorMove>>
  /\ returnedActions("quickfix") # <<>>
  /\ asked("getCodeFixesAtPosition") /\ ~asked("getApplicableRefactors")

\* the deferred request an action carries, None for an action with edits
requestOf(action) ==
  IF action.command.command = "vetur.chooseTypeScriptCodeAction" THEN Some(action.command.arguments[1]) ELSE None

\* C16: getCodeActions returns exactly one Organize Imports action when the
\* filter is present and holds source.organizeImports or source, and none
\* otherwise, also with no filter; the action is deferred, with an
\* OrganizeImports request for the file, and has no edits of its own.
OrganizeImportsOnlyOnRequest ==
  (call.op = "getCodeActions" /\ ret.status = "ok") =>
    LET requested == IsSome(call.context.only) /\ Get(call.context.only) \cap {"source.organizeImports", "source"} # {}
        organize == Filter(ret.value, LAMBDA a : a.title = "Organize Imports")
    IN  /\ Len(organize) = IF requested THEN 1 ELSE 0
        /\ returnedActions("source.organizeImports") = organize
        /\ \A i \in 1..Len(organize) :
             /\ IsSome(requestOf(organize[i]))
             /\ Get(requestOf(organize[i])).kind = "OrganizeImports"
             /\ Get(requestOf(organize[i])).fileName = getFilePath(call.uri)

\* with the filter { source } the one action was returned
OrganizeImportsWitness ==
  /\ call.op = "getCodeActions" /\ ret.status = "ok"
  /\ call.context.only = Some({"source"})
  /\ Len(returnedActions("source.organizeImports")) = 1

\* the refactor and action names the provider is to ask for, for one refactor
namedBy(refactoring) ==
  IF refactoring.inlineable
  THEN <<[refactorName |-> refactoring.name, actionName |-> refactoring.name]>>
  ELSE [k \in 1..Len(refactoring.actions) |-> [refactorName |-> refactoring.name, actionName |-> refactoring.actions[k].name]]

\* C17: for every list of applicable refactors the refactor provider
\* returns, in the order of the service, one deferred action per inlineable
\* refactor, whose request names the refactor as refactor and as action, and
\* one per sub-action of each refactor that is not inlineable; every refactor
\* action carries a RefactorAction request and none carries edits.
RefactorActionsFollowService ==
  (call.op = "getCodeActions" /\ ret.status = "ok" /\ refactorAllowed) =>
    LET expected == Flatten([k \in 1..Len(call.refactorings) |-> namedBy(call.refactorings[k])])
        actions == returnedActions("refactor")
    IN  /\ Len(actions) = Len(expected)
        /\ \A i \in 1..Len(actions) :
             /\ IsSome(requestOf(actions[i]))
             /\ Get(requestOf(actions[i])).kind = "RefactorAction"
             /\ Get(requestOf(actions[i])).arguments.refactorName = expected[i].refactorName
             /\ Get(requestOf(actions[i])).arguments.actionName = expected[i].actionName

\* for a refactor with two sub-actions followed by an inlineable one, three
\* refactor actions were returned
RefactorActionsWitness ==
  /\ call.op = "getCodeActions" /\ ret.status = "ok"
  /\ call.refactorings = <<RefactorExtract, RefactorConvert>>
  /\ Len(returnedActions("refactor")) = 3

\* the formatter that format uses for the document of the last call
formatterOf(uri) == IF languageId(uri) = "javascript" THEN Get(config[call.m]).formatterJs ELSE Get(config[call.m]).formatterTs

\* C18: with the built-in formatter, format returns exactly the edits of the
\* service whose span starts at or after the start offset of the range and
\* ends at or before its end offset, in the order of the service; with the
\* formatter none the result is empty.
BuiltInFormatKeepsEditsInside ==
  (call.op = "format" /\ IsSome(config[call.m])) =>
    LET scriptText == getSingleTypeDocument(docs[call.uri])
        start == offsetAt(scriptText, call.range.start)
        end == offsetAt(scriptText, call.range.end)
        inside == Filter(Get(call.edits), LAMBDA e : e.span.start >= start /\ e.span.start + e.span.length <= end)
    IN  /\ formatterOf(call.uri) = "none" => (Returned(<<>>) /\ queries = <<>>)
        /\ (formatterOf(call.uri) = "vscode-typescript" /\ IsSome(call.edits)) =>
             Returned([k \in 1..Len(inside) |-> [range |-> convertRange(scriptText, inside[k].span), newText |-> inside[k].newText]])

\* the built-in formatter was given an edit that ends past the range and one
\* inside it, and one edit was returned
BuiltInFormatWitness ==
  /\ call.op = "format" /\ call.uri = UriA /\ IsSome(config[call.m])
  /\ formatterOf(UriA) = "vscode-typescript"
  /\ call.range = Range(Position(0, 1), Position(1, 0))
  /\ call.edits = Some(<<FormatEdit(2, 2), FormatEdit(1, 2)>>)
  /\ ret.status = "ok" /\ Len(ret.value) = 1

\* the edits the mapping is to hold under a uri, for the changes of a fix
editsFiledUnder(uri, changes) ==
  Flatten([k \in 1..Len(changes) |-> IF UriFile(changes[k].fileName) = uri THEN editsOfChange(changes[k]) ELSE <<>>])

\* the fixes the service gave the last getCodeActions call
fixesOfCall ==
  getCodeFixesAtPosition(call.fixesFor, fixableDiagnosticCodes(call.context.diagnostics, Get(supportedCodeFixCodes[call.m])))

\* the actions of the last call that carry edits, one per fix
appliedActions == Filter(ret.value, LAMBDA a : a.command.command = "vetur.applyWorkspaceEdits")

\* C20: for any list of file-scoped changes of a fix, also with several
\* entries for one file, the mapping of the action has one key per target
\* file uri, and the list under a key is the text changes of the entries of
\* that file, in the order of the service, none lost, repeated or misfiled.
MappingMergesPerFile ==
  (call.op = "getCodeActions" /\ ret.status = "ok" /\ quickFixAllowed) =>
    /\ Len(appliedActions) = Len(fixesOfCall)
    /\ \A i \in 1..Len(appliedActions) :
         LET mapping == appliedActions[i].command.arguments[1].changes
             changes == fixesOfCall[i].changes
         IN  /\ DOMAIN mapping = {UriFile(changes[k].fileName) : k \in 1..Len(changes)}
             /\ \A uri \in DOMAIN mapping : mapping[uri] = editsFiledUnder(uri, changes)

\* a fix with two entries for a.vue gave one key with their three edits
MappingMergesWitness ==
  /\ call.op = "getCodeActions" /\ ret.status = "ok"
  /\ call.fixesFor = FixesWith(<<ChangeOne, ChangeTwo>>)
  /\ Len(appliedActions) = 1
  /\ DOMAIN appliedActions[1].command.arguments[1].changes = {UriA}
  /\ Len(appliedActions[1].command.arguments[1].changes[UriA]) = 3

\* the class-derived entries of the stored props list: the list without the
\* entries of the decorator argument at its end
classPropsEntries ==
  LET objectProps == IF IsSome(theArgument) THEN OrEmpty(getObjectProps(Get(theArgument))) ELSE <<>>
  IN  SubSeq(OrEmpty(theInfo.props), 1, Len(OrEmpty(theInfo.props)) - Len(objectProps))

\* C23: for the class shape, the class-derived props entries and the
\* class-derived data entries are disjoint: no member name is both a prop
\* (decorator Prop, Model or PropSync) and listed as data.
ClassPropsAndDataAreDisjoint ==
  storedClassInfo => namesOf(Some(classPropsEntries)) \cap namesOf(Some(classDataEntries)) = {}

\* C24: format leaves the configuration as it was: after a format call, with
\* an external formatter, the built-in one or none, the stored configuration
\* and its javascript.format and typescript.format objects have the field
\* values they had before the call.
FormatLeavesConfigUnchanged == [][call'.op = "format" => config' = config]_vars

\* the last call analysed a document whose component refers to other
\* components, on an instance with a configuration
referringCall ==
  /\ call.op = "updateFileInfo" /\ vueInfoService[call.m] /\ IsSome(config[call.m])
  /\ call.program /\ IsSome(call.sourceFile) /\ IsSome(call.internalChildComponents)
  /\ IsSome(getDefaultExportNode(Get(call.sourceFile)))

\* C22: getComponentInfo ends for every graph of components, also when
\* components refer to each other in a cycle: each child component reported
\* for the document's component is analysed once, and the analysis of a child
\* does not go on to the child's own child components.
ChildrenAnalysedOnceAndNoDeeper ==
  referringCall =>
    /\ ret.status = "ok" /\ Len(storedInfos) = 1
    /\ LET reported == Get(call.internalChildComponents)
           children == OrEmpty(storedInfos[1].arg.childComponents)
       IN  /\ IsSome(storedInfos[1].arg.childComponents)
           /\ Len(children) = Len(reported)
           /\ \A i \in 1..Len(children) :
                /\ children[i].name = reported[i].name
                /\ IsSome(children[i].info) = IsSome(reported[i].defaultExportNode)
                /\ IsSome(children[i].info) =>
                     /\ DOMAIN Get(children[i].info) = {"componentInfo"}
                     /\ DOMAIN Get(children[i].info).componentInfo = {"props", "data", "computed", "methods"}
                     /\ Get(children[i].info) = analyzeDefaultExportExpr(Get(reported[i].defaultExportNode))

\* the component r of the document refers to k and to c, k refers back to r
\* and c refers to r and to itself; the call returned with the two children
ChildrenInACycleWitness ==
  /\ referringCall /\ ret.status = "ok" /\ Len(storedInfos) = 1
  /\ call.sourceFile = Some(<<ExportStatement(ObjectNode(ObjectReferring(<<<<"k">>, <<"c">>>>)))>>)
  /\ call.internalChildComponents = ChildrenNamed(<<<<"k">>, <<"c">>>>)
  /\ componentNames(Get(Get(call.internalChildComponents)[1].defaultExportNode).type) = <<<<"r">>>>
  /\ componentNames(Get(Get(call.internalChildComponents)[2].defaultExportNode).type) = <<<<"r">>, <<"c">>>>
  /\ Len(Get(storedInfos[1].arg.childComponents)) = 2

\* the last call stored the info of a class with one member
storedMemberInfo == storedClassInfo /\ Len(theClass.members) = 1 /\ IsSome(theInfo.data)

\* the member's declaration, and the code block of its stored documentation:
\* what stands between the opening fence and the closing fence
theMember == theClass.members[1]
theBlock ==
  LET documentation == Get(Get(theInfo.data)[1].documentation)
      before == Len(join(theMember.comment, <<"\n">>)) + 1 + Len(JsFence)
  IN  SubSeq(documentation, before + 1, Len(documentation) - Len(EndFence))

\* the characters of a text that are not white space, in order
nonWhiteSpace(text) == SelectSeq(text, LAMBDA ch : ch \notin WhiteSpace)

\* line is given with at most n characters of leading white space removed
deindented(given, line, n) ==
  LET removed == Len(line) - Len(given)
  IN  /\ removed \in 0..Max(n, 0)
      /\ SubSeq(line, removed + 1, Len(line)) = given
      /\ \A j \in 1..removed : line[j] \in WhiteSpace

\* C21: the code block that buildDocumentation makes of a declaration text
\* keeps the first line and the number of lines, and takes from each later
\* line only leading white space, at most the indentation of the last line:
\* no character that is not white space is lost, also when a line is
\* indented less than the last line; a text of one line is unchanged.
DeindentLosesNoCharacter ==
  storedMemberInfo =>
    LET lines == split(theMember.text)
        given == split(theBlock)
    IN  /\ Len(given) = Len(lines)
        /\ given[1] = lines[1]
        /\ \A k \in 2..Len(lines) : deindented(given[k], lines[k], search(lines[Len(lines)]))
        /\ nonWhiteSpace(theBlock) = nonWhiteSpace(theMember.text)
        /\ Len(lines) = 1 => theBlock = theMember.text

====
